---- MODULE Spec2Model ----
(***************************************************************************)
(* A model of the subiculum-lit-analysis ETL pipeline:                     *)
(*   - DatabaseWriter (src/src/load/db_writer.py): one transaction per     *)
(*     paper over the SQLite store;                                        *)
(*   - Pipeline.run (src/src/pipeline.py): search, paginate, parse, load;  *)
(*   - PubMedAPIClient (src/src/extract/api_client.py): the rate gate and  *)
(*     the retry loop.                                                     *)
(* Each component has its own specification over the shared variables:     *)
(*   LoaderSpec, RunSpec, ClientSpec, GateSpec.                            *)
(***************************************************************************)
EXTENDS Integers, Sequences, FiniteSets, TLC

VARIABLES
    \* ---- DatabaseWriter and its store
    db,              \* the committed content of the SQLite file
    txn,             \* the connection's view: db plus the open transaction's rows
    failure_log,     \* logs/write_failure.log, a sequence of lines
    search_source,   \* DatabaseWriter.search_source
    wpc,             \* position of the writer inside insert_paper
    cur,             \* the paper dict insert_paper was called with
    err,             \* the exception caught by insert_paper's handler
    returns,         \* history: the value each finished insert_paper call returned
    loaded,          \* history: pmid -> the record graph a call returning True loaded
    ncalls,          \* history: number of insert_paper calls started
    \* ---- the upstream API as one run after the other sees it
    up_search,       \* what the search call yields: "ok", "no_webenv" or "error"
    up_count,        \* the search's total count
    up_pages,        \* page number -> what fetch_batch and parse_xml_batch yield
    \* ---- Pipeline.run
    batch_size,      \* Pipeline.batch_size
    rpc,             \* position of the run
    fetched_pmids,   \* the in-memory processed set
    total_papers,    \* search_result.count
    start,           \* the page loop's offset
    papers,          \* the record graphs parsed from the current page
    pidx,            \* index into papers of the next record graph
    total_inserted, total_failed,
    batch_inserted, batch_failed, batch_skipped,
    attempts,        \* history: the identifiers insert_paper was called with in this run
    hist,            \* history: how each earlier run ended ("done", "aborted", "killed")
    db0,             \* history: the store before the first run
    dbDone,          \* history: the store when a run first reached Done
    requested,       \* history: (retstart, retmax) of each fetch_batch call of this run
    summary,         \* the figures of the "Pipeline Complete" lines, None until logged
    issued,          \* the history sessions the server has opened for searches
    searches,        \* history: what each search call of this run returned, None if it raised
    session,         \* the run's web_env and query_key, None before the search returns
    used,            \* history: the tokens of the run's fetch_batch calls
    \* ---- PubMedAPIClient
    rate_limit, max_retries, backoff_base, backoff_max,
    min_interval,        \* PubMedAPIClient.min_interval, in clock ticks
    last_request_time,   \* PubMedAPIClient.last_request_time, in clock ticks
    now,                 \* time.time(), in clock ticks
    cpc,                 \* position of the caller inside _retry_request
    attempt,             \* the retry loop's variable
    n_attempts,          \* history: HTTP attempts issued by the current call
    succeeded,           \* history: an attempt of the current call succeeded
    last_outcome,        \* history: how the latest attempt ended
    last_wait,           \* history: seconds slept by the latest attempt's handler
    raised_kind,         \* history: the exception the current call raised
    nrequests,           \* history: calls of _retry_request started
    nstarts,             \* history: HTTP attempts started on this client
    first_start, prev_start, last_start,  \* history: when attempts started
    \* ---- concurrent callers of one client, each inside _wait_if_needed
    gpc,                 \* caller -> its position
    elapsed,             \* caller -> its local variable elapsed
    wake,                \* caller -> the time its sleep ends
    gcalls,              \* history: caller -> requests it started
    \* ---- transform then load of one batch of documents
    docs,                \* the PubmedArticle elements of the batch
    tpc,                 \* position: "parse", "load", "done" or "raised"
    parsed,              \* what parse_xml_batch returned
    diagnostics,         \* the paper-skip warnings parse_xml_batch logged
    reached,             \* history: the record graphs insert_paper was called with
    lidx,                \* index into parsed of the next record graph to load
    \* ---- _calculate_backoff over the attempts 0, 1, 2, ...
    backoffs,            \* history: the backoff computed for each attempt so far
    \* ---- the constraint test's direct INSERT into paper_authors
    link_try,            \* history: the link of the latest direct INSERT, and whether it raised
    \* ---- one call of a function of xml_parser
    arg,                 \* the argument of the call
    ret,                 \* what the call returned or raised, None before it ends
    fpc                  \* position: "call" or "returned"

loaderVars == <<db, txn, failure_log, search_source, wpc, cur, err, returns, loaded, ncalls>>

upstreamVars == <<up_search, up_count, up_pages>>

runVars == <<batch_size, rpc, fetched_pmids, total_papers, start, papers, pidx,
             total_inserted, total_failed, batch_inserted, batch_failed, batch_skipped,
             attempts, hist, db0, dbDone, requested, summary,
             issued, searches, session, used>>

clientVars == <<rate_limit, max_retries, backoff_base, backoff_max, min_interval,
                last_request_time, now, cpc, attempt, n_attempts, succeeded,
                last_outcome, last_wait, raised_kind, nrequests, nstarts,
                first_start, prev_start, last_start>>

gateVars == <<gpc, elapsed, wake, gcalls>>

transformVars == <<docs, tpc, parsed, diagnostics, reached, lidx>>

backoffVars == <<backoffs>>

testVars == <<link_try>>

callVars == <<arg, ret, fpc>>

vars == <<loaderVars, upstreamVars, runVars, clientVars, gateVars, transformVars, backoffVars,
          testVars, callVars>>

(***************************************************************************)
(* Bounds of the model.                                                    *)
(***************************************************************************)
MaxPmid == 2          \* identifiers are 1..MaxPmid
MaxAuthors == 2       \* longest author list of a record graph
MaxCount == 2         \* largest total count a search reports
MaxBatch == 2         \* largest Pipeline.batch_size
MaxRuns == 2          \* runs of the pipeline in one behaviour of RunSpec
MaxCalls == 2         \* insert_paper calls in one behaviour of LoaderSpec
MaxRetries == 3       \* largest max_retries a client is constructed with
MaxRequests == 2      \* _retry_request calls in one behaviour of ClientSpec
TicksPerInterval == 2 \* clock ticks in one min_interval
NumCallers == 2       \* concurrent callers of one client in GateSpec
MaxClock == 8         \* the tick GateSpec's clock stops at

(***************************************************************************)
(* Python's None and an optional value that is present.                    *)
(***************************************************************************)
None == <<>>
Some(v) == <<v>>

Min(S) == CHOOSE x \in S : \A y \in S : x <= y

RECURSIVE SeqsUpTo(_, _)
SeqsUpTo(S, n) ==
    IF n = 0 THEN {<<>>}
    ELSE LET shorter == SeqsUpTo(S, n - 1)
         IN shorter \cup {Append(s, x) : s \in {t \in shorter : Len(t) = n - 1}, x \in S}

(***************************************************************************)
(* Record graphs: the paper dicts parse_paper returns.                     *)
(***************************************************************************)
PMIDs == 1..MaxPmid

\* Author mentions as parse_authors leaves them, before the position is set:
\* they differ only in that one has no fore_name.
AuthorMentions ==
    { [last_name |-> "Smith", fore_name |-> Some("Jane"), initials |-> Some("J"), orcid |-> None],
      [last_name |-> "Smith", fore_name |-> None, initials |-> Some("S"), orcid |-> None] }

WithPositions(mentions) ==
    [i \in 1..Len(mentions) |->
        [last_name |-> mentions[i].last_name, fore_name |-> mentions[i].fore_name,
         initials |-> mentions[i].initials, orcid |-> mentions[i].orcid,
         affiliation |-> None, position |-> i]]

AuthorLists == {WithPositions(m) : m \in SeqsUpTo(AuthorMentions, MaxAuthors)}

CitationRefs == { [cited_pmid |-> Some(7), cited_doi |-> None, citation_text |-> None] }

CitationLists == {<<>>} \cup {<<c>> : c \in CitationRefs}

PaperDicts ==
    [pmid : PMIDs, title : {"T"}, authors : AuthorLists, citations : CitationLists,
     open_access : {None}]

NoPaper == [pmid |-> 0, title |-> "", authors |-> <<>>, citations |-> <<>>, open_access |-> None]

(***************************************************************************)
(* The store: one field per table of the schema.                           *)
(***************************************************************************)
EmptyStore ==
    [papers |-> {}, authors |-> <<>>, paper_authors |-> {}, citations |-> <<>>,
     paper_open_access |-> {}, fetch_log |-> <<>>, paper_search_sources |-> {}]

\* The outcome of one statement run on the connection: the rows after it, and
\* the exception it raised, if any.
Ok(s) == [ok |-> TRUE, db |-> s, err |-> ""]
Raise(s, e) == [ok |-> FALSE, db |-> s, err |-> e]

\* papers is keyed by pmid.
PapersKeyTaken(s, pmid) == \E p \in s.papers : p.pmid = pmid

\* paper_authors: PRIMARY KEY (pmid, author_id), UNIQUE (pmid, author_position).
LinkViolationPositionOnly(s, link) ==
    \E l \in s.paper_authors :
        l.pmid = link.pmid /\ l.author_position = link.author_position
LinkViolation(s, link) ==
    \E l \in s.paper_authors :
        /\ l.pmid = link.pmid
        /\ \/ l.author_id = link.author_id
           \/ l.author_position = link.author_position

\* INSERT OR IGNORE INTO papers: a taken key is passed over in silence.
InsertPaperRecordOrIgnore(s, paper) ==
    IF PapersKeyTaken(s, paper.pmid)
    THEN Ok(s)
    ELSE Ok([s EXCEPT !.papers = @ \cup {[pmid |-> paper.pmid, title |-> paper.title]}])
InsertPaperRecord(s, paper) ==
    IF PapersKeyTaken(s, paper.pmid)
    THEN Raise(s, "UNIQUE constraint failed: papers.pmid")
    ELSE Ok([s EXCEPT !.papers = @ \cup {[pmid |-> paper.pmid, title |-> paper.title]}])

\* The lookup written with = in place of IS: NULL = NULL is not true in SQL.
GetOrCreateAuthorEquals(s, last_name, fore_name, initials, orcid) ==
    LET found == {i \in 1..Len(s.authors) :
                    /\ s.authors[i].last_name = last_name
                    /\ fore_name # None /\ s.authors[i].fore_name = fore_name
                    /\ orcid # None /\ s.authors[i].orcid = orcid}
    IN IF found # {}
       THEN [db |-> s, author_id |-> Min(found)]
       ELSE [db |-> [s EXCEPT !.authors =
                        Append(@, [last_name |-> last_name, fore_name |-> fore_name,
                                   initials |-> initials, orcid |-> orcid])],
             author_id |-> Len(s.authors) + 1]
\* A lookup that writes the mention's initials into the row it found.
GetOrCreateAuthorUpdatesInitials(s, last_name, fore_name, initials, orcid) ==
    LET found == {i \in 1..Len(s.authors) :
                    /\ s.authors[i].last_name = last_name
                    /\ s.authors[i].fore_name = fore_name
                    /\ s.authors[i].orcid = orcid}
    IN IF found # {}
       THEN [db |-> [s EXCEPT !.authors[Min(found)].initials = initials],
             author_id |-> Min(found)]
       ELSE [db |-> [s EXCEPT !.authors =
                        Append(@, [last_name |-> last_name, fore_name |-> fore_name,
                                   initials |-> initials, orcid |-> orcid])],
             author_id |-> Len(s.authors) + 1]
\* SELECT ... WHERE last_name = ? AND fore_name IS ? AND orcid IS ?, else INSERT.
GetOrCreateAuthor(s, last_name, fore_name, initials, orcid) ==
    LET found == {i \in 1..Len(s.authors) :
                    /\ s.authors[i].last_name = last_name
                    /\ s.authors[i].fore_name = fore_name
                    /\ s.authors[i].orcid = orcid}
    IN IF found # {}
       THEN [db |-> s, author_id |-> Min(found)]
       ELSE [db |-> [s EXCEPT !.authors =
                        Append(@, [last_name |-> last_name, fore_name |-> fore_name,
                                   initials |-> initials, orcid |-> orcid])],
             author_id |-> Len(s.authors) + 1]

RECURSIVE InsertAuthorsFrom(_, _, _, _)
InsertAuthorsFrom(s, pmid, authors, i) ==
    IF i > Len(authors) THEN Ok(s)
    ELSE LET a == authors[i]
             r == GetOrCreateAuthor(s, a.last_name, a.fore_name, a.initials, a.orcid)
             link == [pmid |-> pmid, author_id |-> r.author_id,
                      author_position |-> a.position, affiliation |-> a.affiliation]
         IN IF LinkViolation(r.db, link)
            THEN Raise(r.db, "UNIQUE constraint failed: paper_authors")
            ELSE InsertAuthorsFrom([r.db EXCEPT !.paper_authors = @ \cup {link}],
                                   pmid, authors, i + 1)

InsertAuthors(s, pmid, authors) == InsertAuthorsFrom(s, pmid, authors, 1)

RECURSIVE InsertCitationsFrom(_, _, _, _)
InsertCitationsFrom(s, pmid, citations, i) ==
    IF i > Len(citations) THEN Ok(s)
    ELSE InsertCitationsFrom(
            [s EXCEPT !.citations =
                Append(@, [citing_pmid |-> pmid, cited_pmid |-> citations[i].cited_pmid,
                           cited_doi |-> citations[i].cited_doi,
                           citation_text |-> citations[i].citation_text])],
            pmid, citations, i + 1)

InsertCitations(s, pmid, citations) == InsertCitationsFrom(s, pmid, citations, 1)

\* INSERT OR IGNORE, skipped for an empty dict.
InsertOpenAccess(s, pmid, open_access) ==
    IF open_access = None \/ \E r \in s.paper_open_access : r.pmid = pmid
    THEN Ok(s)
    ELSE Ok([s EXCEPT !.paper_open_access = @ \cup {[pmid |-> pmid, info |-> open_access]}])

UpdateFetchLogSkipped(s, pmid, success) == Ok(s)
UpdateFetchLog(s, pmid, success) ==
    Ok([s EXCEPT !.fetch_log = Append(@, [pmid |-> pmid, fetch_success |-> success])])

\* INSERT OR IGNORE on (pmid, search_type).
InsertSearchSource(s, pmid, source) ==
    IF \E r \in s.paper_search_sources : r.pmid = pmid /\ r.search_type = source
    THEN Ok(s)
    ELSE Ok([s EXCEPT !.paper_search_sources = @ \cup {[pmid |-> pmid, search_type |-> source]}])

LogFailure(log, pmid, error_message) ==
    Append(log, [pmid |-> pmid, error_message |-> error_message])

GetFetchedPmids(s) ==
    {s.fetch_log[i].pmid : i \in {j \in 1..Len(s.fetch_log) : s.fetch_log[j].fetch_success}}

(***************************************************************************)
(* insert_paper: the statements of its try block, in order, and the same   *)
(* transaction run as a whole.                                             *)
(***************************************************************************)
StmtOrder == <<"paper", "authors", "citations", "open_access", "fetch_log", "search_source">>

Statement(name, s, paper, source) ==
    CASE name = "paper" -> InsertPaperRecord(s, paper)
      [] name = "authors" -> InsertAuthors(s, paper.pmid, paper.authors)
      [] name = "citations" -> InsertCitations(s, paper.pmid, paper.citations)
      [] name = "open_access" -> InsertOpenAccess(s, paper.pmid, paper.open_access)
      [] name = "fetch_log" -> UpdateFetchLog(s, paper.pmid, TRUE)
      [] name = "search_source" -> InsertSearchSource(s, paper.pmid, source)

StmtIndex(name) == CHOOSE k \in 1..Len(StmtOrder) : StmtOrder[k] = name

AfterStmt(name) ==
    IF StmtIndex(name) = Len(StmtOrder) THEN "commit" ELSE StmtOrder[StmtIndex(name) + 1]

\* conn.commit(): the open transaction's rows become the committed content.
Commit(committed, working) == working

\* The handler's conn.rollback(): the open transaction's rows are dropped.
RollbackCommits(committed, working) == working
Rollback(committed, working) == committed

\* insert_paper's except block: roll back, log the failure, return False.
HandleExceptionReraises(committed, working, log, pmid, e) ==
    [db |-> Rollback(committed, working), failure_log |-> LogFailure(log, pmid, e),
     result |-> FALSE, raised |-> TRUE]
HandleExceptionLogsAttempt(committed, working, log, pmid, e) ==
    [db |-> UpdateFetchLog(Rollback(committed, working), pmid, FALSE).db,
     failure_log |-> LogFailure(log, pmid, e), result |-> FALSE, raised |-> FALSE]
HandleException(committed, working, log, pmid, e) ==
    [db |-> Rollback(committed, working), failure_log |-> LogFailure(log, pmid, e),
     result |-> FALSE, raised |-> FALSE]

RECURSIVE RunStatements(_, _, _, _)
RunStatements(s, paper, source, k) ==
    IF k > Len(StmtOrder) THEN Ok(s)
    ELSE LET r == Statement(StmtOrder[k], s, paper, source)
         IN IF r.ok THEN RunStatements(r.db, paper, source, k + 1) ELSE r

\* One whole insert_paper call on a store with no open transaction.
InsertPaper(s, log, paper, source) ==
    LET r == RunStatements(s, paper, source, 1)
    IN IF r.ok
       THEN [db |-> Commit(s, r.db), failure_log |-> log, result |-> TRUE, raised |-> FALSE]
       ELSE HandleException(s, r.db, log, paper.pmid, r.err)

(***************************************************************************)
(* xml_parser: documents as lxml shows them to parse_paper.  An element is *)
(* absent (find returns None) or present with its .text, which is None for *)
(* an empty element and for one whose content starts with a child element. *)
(***************************************************************************)
NoElem == [elem |-> FALSE, text |-> None, children |-> FALSE]
Elem(text) == [elem |-> TRUE, text |-> text, children |-> FALSE]
\* <ArticleTitle><i>In vivo</i> imaging</ArticleTitle>: .text is None.
MarkupElem == [elem |-> TRUE, text |-> None, children |-> TRUE]

\* The integers written in the documents of the model.
Numbers == PMIDs \cup (1..5) \cup {7, 15, 1999}

\* int(text): None where int() raises ValueError.
IntOf(text) ==
    IF \E n \in Numbers : ToString(n) = text
    THEN Some(CHOOSE n \in Numbers : ToString(n) = text)
    ELSE None

\* str.strip() on the texts of the model.
Strip(text) ==
    CASE text = "  " -> ""
      [] text = " T " -> "T"
      [] OTHER -> text

\* `not elem.text`: the text is None or the empty string.
NoText(e) == e.text = None \/ e.text = Some("")

\* _get_text: the stripped text of a child, None if absent or empty.
GetText(e) == IF e.elem /\ ~NoText(e) THEN Some(Strip(e.text[1])) ELSE None

\* What one step of a parse function yields: a value, or the exception raised.
Value(v) == [raised |-> FALSE, value |-> v]
ValueError == [raised |-> TRUE, value |-> None]

\* int(e.text) if e is not None and e.text else None
OptionalInt(e) ==
    IF e.elem /\ ~NoText(e)
    THEN (IF IntOf(e.text[1]) = None THEN ValueError ELSE Value(IntOf(e.text[1])))
    ELSE Value(None)

\* parse_authors: one dict per Author element that has a last name, with the
\* element's position among all Author elements; skips is the number of
\* skip warnings.
RECURSIVE ParseAuthorsFrom(_, _)
ParseAuthorsFrom(author_elems, position) ==
    IF position > Len(author_elems) THEN [authors |-> <<>>, skips |-> 0]
    ELSE LET a == author_elems[position]
             rest == ParseAuthorsFrom(author_elems, position + 1)
         IN IF ~a.last_name.elem \/ NoText(a.last_name)
            THEN [authors |-> rest.authors, skips |-> rest.skips + 1]
            ELSE [authors |->
                    <<[last_name |-> Strip(a.last_name.text[1]),
                       fore_name |-> GetText(a.fore_name),
                       initials |-> GetText(a.initials),
                       orcid |-> a.orcid,
                       affiliation |-> None,
                       position |-> position]>> \o rest.authors,
                  skips |-> rest.skips]

\* A parse_authors that numbers the authors it keeps 1, 2, ...
ParseAuthorsRenumbered(author_elems) ==
    LET r == ParseAuthorsFrom(author_elems, 1)
    IN [authors |-> [j \in 1..Len(r.authors) |-> [r.authors[j] EXCEPT !.position = j]],
        skips |-> r.skips]
ParseAuthors(author_elems) == ParseAuthorsFrom(author_elems, 1)

\* parse_citations: int() of a cited identifier may raise; a reference with
\* neither identifier is dropped.
RECURSIVE ParseCitationsFrom(_, _)
ParseCitationsFrom(refs, i) ==
    IF i > Len(refs) THEN Value(<<>>)
    ELSE LET cited_pmid == OptionalInt(refs[i].pubmed)
             rest == ParseCitationsFrom(refs, i + 1)
         IN IF cited_pmid.raised THEN ValueError
            ELSE IF rest.raised THEN ValueError
            ELSE IF (cited_pmid.value = None \/ cited_pmid.value = Some(0))
                    /\ (refs[i].doi = None \/ refs[i].doi = Some(""))
            THEN rest
            ELSE Value(<<[cited_pmid |-> cited_pmid.value, cited_doi |-> refs[i].doi,
                          citation_text |-> None]>> \o rest.value)

\* A parse_citations that returns the references last to first.
ParseCitationsReversed(refs) ==
    LET r == ParseCitationsFrom(refs, 1)
    IN IF r.raised THEN r
       ELSE Value([i \in 1..Len(r.value) |-> r.value[Len(r.value) + 1 - i]])
ParseCitations(refs) == ParseCitationsFrom(refs, 1)

\* parse_paper: a record graph, a skip with its warning, or an exception.
Skipped(warning) == [kind |-> "skip", paper |-> NoPaper, warnings |-> <<warning>>]
ParseRaises == [kind |-> "raise", paper |-> NoPaper, warnings |-> <<>>]

\* `title_elem is None or not title_elem.text`
TitleMissing(title_elem) == ~title_elem.elem \/ NoText(title_elem)

ParsePaper(doc) ==
    IF ~doc.pmid.elem \/ NoText(doc.pmid)
    THEN Skipped([warning |-> "missing PMID", pmid |-> None])
    ELSE IF IntOf(doc.pmid.text[1]) = None THEN ParseRaises
    ELSE LET pmid == IntOf(doc.pmid.text[1])[1]
             pub_year == OptionalInt(doc.year)
             pub_day == OptionalInt(doc.day)
             authors == ParseAuthors(doc.authors)
             citations == ParseCitations(doc.refs)
         IN IF TitleMissing(doc.title)
            THEN Skipped([warning |-> "missing title", pmid |-> Some(pmid)])
            ELSE IF pub_year.raised \/ pub_day.raised \/ citations.raised THEN ParseRaises
            ELSE [kind |-> "paper",
                  paper |-> [pmid |-> pmid, title |-> Strip(doc.title.text[1]),
                             pub_year |-> pub_year.value, pub_day |-> pub_day.value,
                             authors |-> authors.authors, citations |-> citations.value,
                             open_access |-> None],
                  warnings |-> <<>>]

\* parse_xml_batch from article i on, given the papers and warnings so far:
\* the loop has no handler, an exception of parse_paper leaves it.
RECURSIVE ParseXmlBatchFrom(_, _, _, _)
ParseXmlBatchFrom(articles, i, so_far, warnings) ==
    IF i > Len(articles) THEN [raised |-> FALSE, papers |-> so_far, warnings |-> warnings]
    ELSE LET r == ParsePaper(articles[i])
         IN IF r.kind = "raise"
            THEN [raised |-> TRUE, papers |-> <<>>, warnings |-> warnings]
            ELSE ParseXmlBatchFrom(articles, i + 1,
                                   IF r.kind = "paper" THEN Append(so_far, r.paper) ELSE so_far,
                                   warnings \o r.warnings)

\* A batch parser that also drops a record graph left with no author.
ParseXmlBatchDropsAuthorless(articles) ==
    LET r == ParseXmlBatchFrom(articles, 1, <<>>, <<>>)
    IN [r EXCEPT !.papers = SelectSeq(@, LAMBDA paper : paper.authors # <<>>)]
ParseXmlBatch(articles) == ParseXmlBatchFrom(articles, 1, <<>>, <<>>)

(***************************************************************************)
(* _normalize_month.  A string is the sequence of its characters, so that  *)
(* int() and lower() are computed and not assumed.                         *)
(***************************************************************************)
LowerCase == <<"a", "b", "c", "d", "e", "f", "g", "h", "i", "j", "k", "l", "m", "n", "o", "p", "q", "r", "s", "t", "u", "v", "w", "x", "y", "z">>
UpperCase == <<"A", "B", "C", "D", "E", "F", "G", "H", "I", "J", "K", "L", "M", "N", "O", "P", "Q", "R", "S", "T", "U", "V", "W", "X", "Y", "Z">>
Digits == <<"0", "1", "2", "3", "4", "5", "6", "7", "8", "9">>

IsDigit(c) == \E i \in DOMAIN Digits : Digits[i] = c
DigitValue(c) == (CHOOSE i \in DOMAIN Digits : Digits[i] = c) - 1

\* str.lower(), character by character.
LowerChar(c) ==
    IF \E i \in DOMAIN UpperCase : UpperCase[i] = c
    THEN LowerCase[CHOOSE i \in DOMAIN UpperCase : UpperCase[i] = c]
    ELSE c
LowerKeepsCase(str) == str
Lower(str) == [i \in DOMAIN str |-> LowerChar(str[i])]

\* The white space int() strips from both ends.
RECURSIVE StripLeft(_)
StripLeft(str) ==
    IF str # <<>> /\ Head(str) = " " THEN StripLeft(Tail(str)) ELSE str
RECURSIVE StripRight(_)
StripRight(str) ==
    IF str # <<>> /\ str[Len(str)] = " " THEN StripRight(SubSeq(str, 1, Len(str) - 1)) ELSE str

RECURSIVE DigitsValue(_, _)
DigitsValue(str, acc) ==
    IF str = <<>> THEN acc ELSE DigitsValue(Tail(str), 10 * acc + DigitValue(Head(str)))

\* int(str): white space stripped, an optional sign, then decimal digits
\* only; None where int() raises ValueError.
IntOfString(str) ==
    LET stripped == StripRight(StripLeft(str))
        signed == stripped # <<>> /\ Head(stripped) \in {"+", "-"}
        digits == IF signed THEN Tail(stripped) ELSE stripped
    IN IF digits = <<>> \/ \E i \in DOMAIN digits : ~IsDigit(digits[i])
       THEN None
       ELSE Some(IF signed /\ Head(stripped) = "-"
                 THEN 0 - DigitsValue(digits, 0) ELSE DigitsValue(digits, 0))

\* The months dict.
Months ==
    { [name |-> <<"j", "a", "n">>, month |-> 1],
      [name |-> <<"j", "a", "n", "u", "a", "r", "y">>, month |-> 1],
      [name |-> <<"f", "e", "b">>, month |-> 2],
      [name |-> <<"f", "e", "b", "r", "u", "a", "r", "y">>, month |-> 2],
      [name |-> <<"m", "a", "r">>, month |-> 3],
      [name |-> <<"m", "a", "r", "c", "h">>, month |-> 3],
      [name |-> <<"a", "p", "r">>, month |-> 4],
      [name |-> <<"a", "p", "r", "i", "l">>, month |-> 4],
      [name |-> <<"m", "a", "y">>, month |-> 5],
      [name |-> <<"j", "u", "n">>, month |-> 6],
      [name |-> <<"j", "u", "n", "e">>, month |-> 6],
      [name |-> <<"j", "u", "l">>, month |-> 7],
      [name |-> <<"j", "u", "l", "y">>, month |-> 7],
      [name |-> <<"a", "u", "g">>, month |-> 8],
      [name |-> <<"a", "u", "g", "u", "s", "t">>, month |-> 8],
      [name |-> <<"s", "e", "p">>, month |-> 9],
      [name |-> <<"s", "e", "p", "t", "e", "m", "b", "e", "r">>, month |-> 9],
      [name |-> <<"o", "c", "t">>, month |-> 10],
      [name |-> <<"o", "c", "t", "o", "b", "e", "r">>, month |-> 10],
      [name |-> <<"n", "o", "v">>, month |-> 11],
      [name |-> <<"n", "o", "v", "e", "m", "b", "e", "r">>, month |-> 11],
      [name |-> <<"d", "e", "c">>, month |-> 12],
      [name |-> <<"d", "e", "c", "e", "m", "b", "e", "r">>, month |-> 12] }

\* months.get(key)
MonthsGet(key) ==
    IF \E e \in Months : e.name = key
    THEN Some((CHOOSE e \in Months : e.name = key).month)
    ELSE None

NormalizeMonth(month_str) ==
    LET month == IntOfString(month_str)
    IN IF month # None
       THEN (IF 1 <= month[1] /\ month[1] <= 12 THEN month ELSE None)
       ELSE MonthsGet(Lower(month_str))

(***************************************************************************)
(* PubMedAPIClient: the rate gate and the retry loop of _retry_request.    *)
(* Time is counted in clock ticks, TicksPerInterval of them to one         *)
(* min_interval, so that one second is rate_limit * TicksPerInterval       *)
(* ticks and 1.0 / rate_limit is exact.                                    *)
(***************************************************************************)
SecondsToTicks(seconds, rate) == seconds * rate * TicksPerInterval

\* self.min_interval = 1.0 / rate_limit
MinInterval(rate) == SecondsToTicks(1, rate) \div rate

RECURSIVE Pow(_, _)
Pow(b, e) == IF e = 0 THEN 1 ELSE b * Pow(b, e - 1)

\* A backoff that is never capped.
CalculateBackoffUncapped(base, cap, a) == Pow(base, a)
\* _calculate_backoff: min(base ** attempt, backoff_max)
CalculateBackoff(base, cap, a) == Min({Pow(base, a), cap})

\* _wait_if_needed called at time t: the time it returns at, which is the
\* time it stamps, with the new last_request_time.
WaitIfNeededNoSleep(t, last, interval) ==
    [now |-> t, last_request_time |-> t]

WaitIfNeeded(t, last, interval) ==
    LET since_last == t - last
        woke == IF since_last < interval THEN t + (interval - since_last) ELSE t
    IN  [now |-> woke, last_request_time |-> woke]

\* for attempt in range(self.max_retries)
InRangeInclusive(a, retries) == a <= retries

InRange(a, retries) == a < retries

\* What one attempt can meet; NoOutcome before the first attempt of a call.
NoOutcome == [kind |-> "none", status |-> 0, retry_after |-> None]

\* A Retry-After header is a string or absent.
Statuses == {200, 404, 429, 503}
RetryAfterHeaders == {None, Some("0"), Some("Fri, 06 Nov 2026 07:28:00 GMT")}
Outcomes ==
    {[kind |-> "timeout", status |-> 0, retry_after |-> None],
     [kind |-> "connection_error", status |-> 0, retry_after |-> None]}
    \cup {[kind |-> "response", status |-> st, retry_after |-> None] :
             st \in Statuses \ {429}}
    \cup {[kind |-> "response", status |-> 429, retry_after |-> h] :
             h \in RetryAfterHeaders}

\* int(e.response.headers.get("Retry-After", 60)): the seconds, or None
\* where int() raises ValueError.
RetryAfterSeconds(header) ==
    IF header = None THEN Some(60)
    ELSE IF header[1] = "0" THEN Some(0)
    ELSE IF header[1] = "1" THEN Some(1)
    ELSE None

\* response.raise_for_status()
RaisesForStatus(status) == 400 <= status /\ status < 600

\* The branch of the HTTPError handler a status takes.
ClassifyRetriesAll(status) ==
    IF status = 429 THEN "rate_limited" ELSE "server_error"

Classify(status) ==
    IF status = 429 THEN "rate_limited"
    ELSE IF 500 <= status /\ status < 600 THEN "server_error"
    ELSE "client_error"

\* One iteration of the loop after the gate: what the try block and the
\* handlers do with the attempt's outcome.  act is "return", "continue" or
\* "raise"; sleep is the seconds passed to time.sleep, None without a call.
Returns == [act |-> "return", sleep |-> None, exc |-> "none"]
Raises(sleep, exc) == [act |-> "raise", sleep |-> sleep, exc |-> exc]
Continues(sleep) == [act |-> "continue", sleep |-> sleep, exc |-> "none"]

\* A loop whose handlers never raise on the last attempt but go on, so
\* that the statement after the loop raises.
HandleAttemptFallsThrough(a, retries, base, cap, o) ==
    IF o.kind = "timeout" THEN
        IF a < retries - 1
        THEN Continues(Some(CalculateBackoff(base, cap, a)))
        ELSE Continues(None)
    ELSE IF o.kind = "connection_error" THEN
        Raises(None, "ConnectionError")
    ELSE IF ~RaisesForStatus(o.status) THEN Returns
    ELSE IF Classify(o.status) = "rate_limited" THEN
        LET retry_after == RetryAfterSeconds(o.retry_after) IN
        IF retry_after = None THEN Raises(None, "ValueError")
        ELSE Continues(retry_after)
    ELSE IF Classify(o.status) = "server_error" THEN
        IF a < retries - 1
        THEN Continues(Some(CalculateBackoff(base, cap, a)))
        ELSE Continues(None)
    ELSE Raises(None, "HTTPError")
HandleAttempt(a, retries, base, cap, o) ==
    IF o.kind = "timeout" THEN
        IF a < retries - 1
        THEN Continues(Some(CalculateBackoff(base, cap, a)))
        ELSE Raises(None, "Timeout")
    ELSE IF o.kind = "connection_error" THEN
        Raises(None, "ConnectionError")
    ELSE IF ~RaisesForStatus(o.status) THEN Returns
    ELSE IF Classify(o.status) = "rate_limited" THEN
        LET retry_after == RetryAfterSeconds(o.retry_after) IN
        IF retry_after = None THEN Raises(None, "ValueError")
        ELSE IF a < retries - 1 THEN Continues(retry_after)
        ELSE Raises(retry_after, "HTTPError")
    ELSE IF Classify(o.status) = "server_error" THEN
        IF a < retries - 1
        THEN Continues(Some(CalculateBackoff(base, cap, a)))
        ELSE Raises(None, "HTTPError")
    ELSE Raises(None, "HTTPError")

(***************************************************************************)
(* No pipeline run in progress: the values the run's variables keep in the *)
(* specifications of the other components.                                 *)
(***************************************************************************)
RunIdle ==
    /\ up_search = "ok" /\ up_count = 0 /\ up_pages = <<>>
    /\ batch_size = 1
    /\ rpc = "idle"
    /\ fetched_pmids = {}
    /\ total_papers = 0 /\ start = 0
    /\ papers = <<>> /\ pidx = 1
    /\ total_inserted = 0 /\ total_failed = 0
    /\ batch_inserted = 0 /\ batch_failed = 0 /\ batch_skipped = 0
    /\ attempts = <<>>
    /\ hist = <<>>
    /\ db0 = EmptyStore
    /\ dbDone = None
    /\ requested = <<>>
    /\ summary = None
    /\ issued = 0 /\ searches = <<>> /\ session = None /\ used = <<>>

(***************************************************************************)
(* A client that is constructed and never used: the values the client's    *)
(* variables keep in the specifications of the other components.           *)
(***************************************************************************)
ClientIdle ==
    /\ rate_limit = 3 /\ max_retries = 3 /\ backoff_base = 2 /\ backoff_max = 60
    /\ min_interval = TicksPerInterval
    /\ last_request_time = 0
    /\ now = TicksPerInterval
    /\ cpc = "idle" /\ attempt = 0
    /\ n_attempts = 0 /\ succeeded = FALSE
    /\ last_outcome = NoOutcome /\ last_wait = None /\ raised_kind = "none"
    /\ nrequests = 0 /\ nstarts = 0
    /\ first_start = None /\ prev_start = None /\ last_start = None

(***************************************************************************)
(* No caller inside the gate.                                              *)
(***************************************************************************)
Callers == 1..NumCallers

GateIdle ==
    /\ gpc = [c \in Callers |-> "idle"]
    /\ elapsed = [c \in Callers |-> 0]
    /\ wake = [c \in Callers |-> 0]
    /\ gcalls = [c \in Callers |-> 0]

(***************************************************************************)
(* No batch in the transform, no backoff computed.                         *)
(***************************************************************************)
TransformIdle ==
    /\ docs = <<>> /\ tpc = "done"
    /\ parsed = <<>> /\ diagnostics = <<>>
    /\ reached = <<>> /\ lidx = 1

BackoffIdle == backoffs = <<>>

LinkTestIdle == link_try = None

CallIdle == arg = <<>> /\ ret = None /\ fpc = "returned"

(***************************************************************************)
(* LoaderSpec: insert_paper called on any record graphs, statement by      *)
(* statement, by a process that may be terminated at any point.            *)
(***************************************************************************)
SearchSources == {"title_abstract", "mesh"}

LoaderInit ==
    /\ db = EmptyStore
    /\ txn = EmptyStore
    /\ failure_log = <<>>
    /\ search_source \in SearchSources
    /\ wpc = "idle"
    /\ cur = NoPaper
    /\ err = ""
    /\ returns = <<>>
    /\ loaded = [p \in PMIDs |-> None]
    /\ ncalls = 0
    /\ RunIdle
    /\ ClientIdle
    /\ GateIdle
    /\ TransformIdle
    /\ BackoffIdle
    /\ LinkTestIdle
    /\ CallIdle

\* The identifiers a call may carry.  insert_paper and the store only compare
\* identifiers for equality, so a behaviour whose calls take fresh identifiers
\* in another order is this one with the identifiers renamed: a fresh
\* identifier is the least one no finished call has carried.
CallablePmids ==
    LET seen == {returns[i].pmid : i \in 1..Len(returns)}
    IN  seen \cup (IF PMIDs \ seen = {} THEN {} ELSE {Min(PMIDs \ seen)})

CallInsertPaper ==
    /\ wpc = "idle"
    /\ ncalls < MaxCalls
    /\ \E paper \in PaperDicts : paper.pmid \in CallablePmids /\ cur' = paper
    /\ wpc' = "begin"
    /\ ncalls' = ncalls + 1
    /\ UNCHANGED <<db, txn, failure_log, search_source, err, returns, loaded>>

BeginTransaction ==
    /\ wpc = "begin"
    /\ wpc' = StmtOrder[1]
    /\ UNCHANGED <<db, txn, failure_log, search_source, cur, err, returns, loaded, ncalls>>

Exec(name) ==
    /\ wpc = name
    /\ LET r == Statement(name, txn, cur, search_source)
       IN /\ txn' = r.db
          /\ err' = r.err
          /\ wpc' = IF r.ok THEN AfterStmt(name) ELSE "except"
    /\ UNCHANGED <<db, failure_log, search_source, cur, returns, loaded, ncalls>>

ExecInsertPaperRecord == Exec("paper")
ExecInsertAuthors == Exec("authors")
ExecInsertCitations == Exec("citations")
ExecInsertOpenAccess == Exec("open_access")
ExecUpdateFetchLog == Exec("fetch_log")
ExecInsertSearchSource == Exec("search_source")

\* Any statement of the try block, conn.commit() included, may raise an error
\* that is no constraint violation (sqlite3.OperationalError).
StatementRaises ==
    /\ wpc \in {StmtOrder[k] : k \in 1..Len(StmtOrder)} \cup {"begin", "commit"}
    /\ err' = "OperationalError"
    /\ wpc' = "except"
    /\ UNCHANGED <<db, txn, failure_log, search_source, cur, returns, loaded, ncalls>>

CommitAndReturnTrue ==
    /\ wpc = "commit"
    /\ db' = Commit(db, txn)
    /\ txn' = Commit(db, txn)
    /\ returns' = Append(returns, [pmid |-> cur.pmid, result |-> TRUE, raised |-> FALSE,
                                   error |-> ""])
    /\ loaded' = [loaded EXCEPT ![cur.pmid] = Some(cur)]
    /\ wpc' = "idle"
    /\ cur' = NoPaper
    /\ UNCHANGED <<failure_log, search_source, err, ncalls>>

HandleFailure ==
    /\ wpc = "except"
    /\ LET h == HandleException(db, txn, failure_log, cur.pmid, err)
       IN /\ db' = h.db
          /\ txn' = h.db
          /\ failure_log' = h.failure_log
          /\ returns' = Append(returns, [pmid |-> cur.pmid, result |-> h.result,
                                         raised |-> h.raised, error |-> err])
    /\ wpc' = "idle"
    /\ cur' = NoPaper
    /\ err' = ""
    /\ UNCHANGED <<search_source, loaded, ncalls>>

\* The process is terminated inside insert_paper; the next process opens the
\* file, where SQLite has dropped the uncommitted transaction.
KillAndReconnect ==
    /\ wpc # "idle"
    /\ txn' = db
    /\ wpc' = "idle"
    /\ cur' = NoPaper
    /\ err' = ""
    /\ search_source' \in SearchSources
    /\ UNCHANGED <<db, failure_log, returns, loaded, ncalls>>

LoaderNext ==
    /\ \/ CallInsertPaper
       \/ BeginTransaction
       \/ ExecInsertPaperRecord
       \/ ExecInsertAuthors
       \/ ExecInsertCitations
       \/ ExecInsertOpenAccess
       \/ ExecUpdateFetchLog
       \/ ExecInsertSearchSource
       \/ StatementRaises
       \/ CommitAndReturnTrue
       \/ HandleFailure
       \/ KillAndReconnect
    /\ UNCHANGED <<upstreamVars, runVars, clientVars, gateVars, transformVars, backoffVars, testVars, callVars>>

LoaderSpec == LoaderInit /\ [][LoaderNext]_vars

(***************************************************************************)
(* Pipeline.run against a fixed upstream: the search's answer and each     *)
(* page's answer are the same in every run of a behaviour.                 *)
(***************************************************************************)
Jane == [last_name |-> "Smith", fore_name |-> Some("Jane"), initials |-> Some("J"), orcid |-> None]

\* A record graph that loads, and one the store rejects: it names the same
\* author twice, so its second link breaks PRIMARY KEY (pmid, author_id).
GoodPaper(pmid) ==
    [pmid |-> pmid, title |-> "T", authors |-> WithPositions(<<Jane>>),
     citations |-> <<>>, open_access |-> None]
BadPaper(pmid) ==
    [pmid |-> pmid, title |-> "T", authors |-> WithPositions(<<Jane, Jane>>),
     citations |-> <<>>, open_access |-> None]

RunPapers == {GoodPaper(p) : p \in PMIDs} \cup {BadPaper(p) : p \in PMIDs}

\* An identifier no search of the behaviour returns (loaded by a run of
\* another query).
ForeignPmid == MaxPmid + 1

\* Stores earlier runs can have left: nothing, a paper of this result set, a
\* paper outside it.
InitialStores ==
    {EmptyStore} \cup
    {InsertPaper(EmptyStore, <<>>, GoodPaper(p), "mesh").db : p \in {1, ForeignPmid}}

NumPages(count, size) == (count + size - 1) \div size

PageLimit(count, size, page) ==
    LET left == count - (page - 1) * size IN IF left < size THEN left ELSE size

\* What fetch_batch followed by parse_xml_batch yields for one page.
PageResponses(limit) ==
    {[kind |-> "fetch_error", papers |-> <<>>], [kind |-> "parse_error", papers |-> <<>>]}
    \cup {[kind |-> "ok", papers |-> ps] : ps \in SeqsUpTo(RunPapers, limit)}

RunInit ==
    /\ db \in InitialStores
    /\ txn = db
    /\ failure_log = <<>>
    /\ search_source \in {"title_abstract"}
    /\ wpc = "idle" /\ cur = NoPaper /\ err = ""
    /\ returns = <<>> /\ loaded = [p \in PMIDs |-> None] /\ ncalls = 0
    /\ batch_size \in 1..MaxBatch
    /\ up_search \in {"ok", "no_webenv", "error"}
    /\ up_count \in 0..MaxCount
    /\ up_search # "ok" => up_count = 0
    /\ \E pages \in [1..NumPages(up_count, batch_size) ->
                        UNION {PageResponses(n) : n \in 0..batch_size}] :
          /\ \A i \in DOMAIN pages :
                Len(pages[i].papers) <= PageLimit(up_count, batch_size, i)
          /\ up_pages = pages
    /\ rpc = "idle"
    /\ fetched_pmids = {}
    /\ total_papers = 0 /\ start = 0
    /\ papers = <<>> /\ pidx = 1
    /\ total_inserted = 0 /\ total_failed = 0
    /\ batch_inserted = 0 /\ batch_failed = 0 /\ batch_skipped = 0
    /\ attempts = <<>>
    /\ hist = <<>>
    /\ db0 = db
    /\ dbDone = None
    /\ requested = <<>>
    /\ summary = None
    /\ issued = 0 /\ searches = <<>> /\ session = None /\ used = <<>>
    /\ ClientIdle
    /\ GateIdle
    /\ TransformIdle
    /\ BackoffIdle
    /\ LinkTestIdle
    /\ CallIdle

\* A record loop that does not add the inserted identifier to the
\* in-memory processed set.
ProcessPaperForgets(st, paper, source) ==
    IF paper.pmid \in st.fetched
    THEN [st EXCEPT !.skipped = @ + 1]
    ELSE LET r == InsertPaper(st.db, st.failure_log, paper, source)
         IN IF r.result
            THEN [st EXCEPT !.db = r.db, !.failure_log = r.failure_log,
                            !.attempts = Append(@, paper.pmid),
                            !.inserted = @ + 1]
            ELSE [st EXCEPT !.db = r.db, !.failure_log = r.failure_log,
                            !.attempts = Append(@, paper.pmid),
                            !.failed = @ + 1]
\* The body of the record loop for one record graph, on the run's state.
ProcessPaper(st, paper, source) ==
    IF paper.pmid \in st.fetched
    THEN [st EXCEPT !.skipped = @ + 1]
    ELSE LET r == InsertPaper(st.db, st.failure_log, paper, source)
         IN IF r.result
            THEN [st EXCEPT !.db = r.db, !.failure_log = r.failure_log,
                            !.attempts = Append(@, paper.pmid),
                            !.inserted = @ + 1, !.fetched = @ \cup {paper.pmid}]
            ELSE [st EXCEPT !.db = r.db, !.failure_log = r.failure_log,
                            !.attempts = Append(@, paper.pmid),
                            !.failed = @ + 1]

\* SearchResult(count, webenv, query_key) of the n-th history session the
\* server opens: every search with usehistory=y is answered with a WebEnv
\* of its own.
SearchResult(n) == [webenv |-> Some(n), query_key |-> Some(1)]

\* The answer carries no webenv and no querykey: result_data.get is None.
NoHandleResult == [webenv |-> None, query_key |-> None]

\* A fetch_batch call that sends the token of a search issued for the page.
FetchParamsOfNewSearch(held, n) ==
    [WebEnv |-> SearchResult(n + 1).webenv, query_key |-> SearchResult(n + 1).query_key]
\* fetch_batch(webenv=web_env, query_key=query_key, ...): the token
\* parameters of the efetch request, given the run's locals and the sessions
\* the server has opened.
FetchParams(held, n) == [WebEnv |-> held.webenv, query_key |-> held.query_key]

\* A new process: connect, read the processed set.
StartRun ==
    /\ rpc = "idle"
    /\ Len(hist) < MaxRuns
    /\ fetched_pmids' = GetFetchedPmids(db)
    /\ rpc' = "search"
    /\ total_papers' = 0 /\ start' = 0
    /\ papers' = <<>> /\ pidx' = 1
    /\ total_inserted' = 0 /\ total_failed' = 0
    /\ batch_inserted' = 0 /\ batch_failed' = 0 /\ batch_skipped' = 0
    /\ attempts' = <<>>
    /\ requested' = <<>>
    /\ summary' = None
    /\ searches' = <<>> /\ session' = None /\ used' = <<>>
    /\ UNCHANGED issued
    /\ UNCHANGED <<loaderVars, upstreamVars, batch_size, hist, db0, dbDone>>

\* api_client.search raises: the exception leaves run.
SearchFails ==
    /\ rpc = "search"
    /\ up_search = "error"
    /\ rpc' = "aborted"
    /\ searches' = Append(searches, None)
    /\ UNCHANGED <<issued, session, used>>
    /\ UNCHANGED <<loaderVars, upstreamVars, batch_size, fetched_pmids, total_papers, start,
                   papers, pidx, total_inserted, total_failed, batch_inserted, batch_failed,
                   batch_skipped, attempts, hist, db0, requested, dbDone, summary>>

\* The search's answer has no webenv: web_env[:20] raises TypeError.
SearchNoHandleGoesOn ==
    /\ rpc = "search"
    /\ up_search = "no_webenv"
    /\ total_papers' = up_count
    /\ rpc' = "fetch"
    /\ searches' = Append(searches, Some(NoHandleResult))
    /\ session' = Some(NoHandleResult)
    /\ UNCHANGED <<issued, used>>
    /\ UNCHANGED <<loaderVars, upstreamVars, batch_size, fetched_pmids, start,
                   papers, pidx, total_inserted, total_failed, batch_inserted, batch_failed,
                   batch_skipped, attempts, hist, db0, requested, dbDone, summary>>

SearchNoHandle ==
    /\ rpc = "search"
    /\ up_search = "no_webenv"
    /\ total_papers' = up_count
    /\ rpc' = "aborted"
    /\ searches' = Append(searches, Some(NoHandleResult))
    /\ session' = Some(NoHandleResult)
    /\ UNCHANGED <<issued, used>>
    /\ UNCHANGED <<loaderVars, upstreamVars, batch_size, fetched_pmids, start,
                   papers, pidx, total_inserted, total_failed, batch_inserted, batch_failed,
                   batch_skipped, attempts, hist, db0, requested, dbDone, summary>>

\* A search phase that also returns where the count is below the number of
\* processed identifiers.
SearchAllFetchedOrMore ==
    /\ rpc = "search"
    /\ up_search = "ok"
    /\ up_count - Cardinality(fetched_pmids) <= 0
    /\ total_papers' = up_count
    /\ rpc' = "done"
    /\ dbDone' = IF dbDone = None THEN Some(db) ELSE dbDone
    /\ issued' = issued + 1
    /\ searches' = Append(searches, Some(SearchResult(issued + 1)))
    /\ session' = Some(SearchResult(issued + 1))
    /\ UNCHANGED used
    /\ UNCHANGED <<loaderVars, upstreamVars, batch_size, fetched_pmids, start,
                   papers, pidx, total_inserted, total_failed, batch_inserted, batch_failed,
                   batch_skipped, attempts, hist, db0, requested, summary>>

\* remaining == 0: return before the page loop.
SearchAllFetched ==
    /\ rpc = "search"
    /\ up_search = "ok"
    /\ up_count - Cardinality(fetched_pmids) = 0
    /\ total_papers' = up_count
    /\ rpc' = "done"
    /\ dbDone' = IF dbDone = None THEN Some(db) ELSE dbDone
    /\ issued' = issued + 1
    /\ searches' = Append(searches, Some(SearchResult(issued + 1)))
    /\ session' = Some(SearchResult(issued + 1))
    /\ UNCHANGED used
    /\ UNCHANGED <<loaderVars, upstreamVars, batch_size, fetched_pmids, start,
                   papers, pidx, total_inserted, total_failed, batch_inserted, batch_failed,
                   batch_skipped, attempts, hist, db0, requested, summary>>

SearchOk ==
    /\ rpc = "search"
    /\ up_search = "ok"
    /\ up_count - Cardinality(fetched_pmids) # 0
    /\ total_papers' = up_count
    /\ total_inserted' = 0 /\ total_failed' = 0
    /\ start' = 0
    /\ rpc' = "fetch"
    /\ issued' = issued + 1
    /\ searches' = Append(searches, Some(SearchResult(issued + 1)))
    /\ session' = Some(SearchResult(issued + 1))
    /\ UNCHANGED used
    /\ UNCHANGED <<loaderVars, upstreamVars, batch_size, fetched_pmids,
                   papers, pidx, batch_inserted, batch_failed,
                   batch_skipped, attempts, hist, db0, requested, dbDone, summary>>

PageOf(offset) == up_pages[offset \div batch_size + 1]

\* fetch_batch raises: log, continue with the next offset.
FetchFailsLeavesLoop ==
    /\ rpc = "fetch"
    /\ start < total_papers
    /\ PageOf(start).kind = "fetch_error"
    /\ start' = total_papers
    /\ requested' = Append(requested, [retstart |-> start, retmax |-> batch_size])
    /\ used' = Append(used, FetchParams(session[1], issued))
    /\ UNCHANGED <<issued, searches, session>>
    /\ UNCHANGED <<loaderVars, upstreamVars, batch_size, rpc, fetched_pmids, total_papers,
                   papers, pidx, total_inserted, total_failed, batch_inserted, batch_failed,
                   batch_skipped, attempts, hist, db0, dbDone, summary>>

FetchFails ==
    /\ rpc = "fetch"
    /\ start < total_papers
    /\ PageOf(start).kind = "fetch_error"
    /\ start' = start + batch_size
    /\ requested' = Append(requested, [retstart |-> start, retmax |-> batch_size])
    /\ used' = Append(used, FetchParams(session[1], issued))
    /\ UNCHANGED <<issued, searches, session>>
    /\ UNCHANGED <<loaderVars, upstreamVars, batch_size, rpc, fetched_pmids, total_papers,
                   papers, pidx, total_inserted, total_failed, batch_inserted, batch_failed,
                   batch_skipped, attempts, hist, db0, dbDone, summary>>

\* A parse failure that leaves the page loop and the run.
ParseFailsStops ==
    /\ rpc = "fetch"
    /\ start < total_papers
    /\ PageOf(start).kind = "parse_error"
    /\ rpc' = "aborted"
    /\ requested' = Append(requested, [retstart |-> start, retmax |-> batch_size])
    /\ used' = Append(used, FetchParams(session[1], issued))
    /\ UNCHANGED <<issued, searches, session>>
    /\ UNCHANGED <<loaderVars, upstreamVars, batch_size, fetched_pmids, total_papers, start,
                   papers, pidx, total_inserted, total_failed, batch_inserted, batch_failed,
                   batch_skipped, attempts, hist, db0, dbDone, summary>>

\* parse_xml_batch raises: log, continue with the next offset.
ParseFails ==
    /\ rpc = "fetch"
    /\ start < total_papers
    /\ PageOf(start).kind = "parse_error"
    /\ start' = start + batch_size
    /\ requested' = Append(requested, [retstart |-> start, retmax |-> batch_size])
    /\ used' = Append(used, FetchParams(session[1], issued))
    /\ UNCHANGED <<issued, searches, session>>
    /\ UNCHANGED <<loaderVars, upstreamVars, batch_size, rpc, fetched_pmids, total_papers,
                   papers, pidx, total_inserted, total_failed, batch_inserted, batch_failed,
                   batch_skipped, attempts, hist, db0, dbDone, summary>>

PageParsed ==
    /\ rpc = "fetch"
    /\ start < total_papers
    /\ PageOf(start).kind = "ok"
    /\ papers' = PageOf(start).papers
    /\ pidx' = 1
    /\ batch_inserted' = 0 /\ batch_failed' = 0 /\ batch_skipped' = 0
    /\ rpc' = "load"
    /\ requested' = Append(requested, [retstart |-> start, retmax |-> batch_size])
    /\ used' = Append(used, FetchParams(session[1], issued))
    /\ UNCHANGED <<issued, searches, session>>
    /\ UNCHANGED <<loaderVars, upstreamVars, batch_size, fetched_pmids, total_papers, start,
                   total_inserted, total_failed, attempts, hist, db0, dbDone, summary>>

\* A record loop that walks the page last graph first.
ProcessRecordBackwards ==
    /\ rpc = "load"
    /\ pidx <= Len(papers)
    /\ LET st == ProcessPaper([db |-> db, failure_log |-> failure_log,
                               fetched |-> fetched_pmids, attempts |-> attempts,
                               inserted |-> batch_inserted, failed |-> batch_failed,
                               skipped |-> batch_skipped],
                              papers[Len(papers) + 1 - pidx], search_source)
       IN /\ db' = st.db
          /\ txn' = st.db
          /\ failure_log' = st.failure_log
          /\ fetched_pmids' = st.fetched
          /\ attempts' = st.attempts
          /\ batch_inserted' = st.inserted
          /\ batch_failed' = st.failed
          /\ batch_skipped' = st.skipped
    /\ pidx' = pidx + 1
    /\ UNCHANGED <<issued, searches, session, used>>
    /\ UNCHANGED <<search_source, wpc, cur, err, returns, loaded, ncalls, upstreamVars,
                   batch_size, rpc, total_papers, start, papers, total_inserted,
                   total_failed, hist, db0, requested, dbDone, summary>>

\* One pass of the record loop: skip, or insert_paper and count.
ProcessRecord ==
    /\ rpc = "load"
    /\ pidx <= Len(papers)
    /\ LET st == ProcessPaper([db |-> db, failure_log |-> failure_log,
                               fetched |-> fetched_pmids, attempts |-> attempts,
                               inserted |-> batch_inserted, failed |-> batch_failed,
                               skipped |-> batch_skipped],
                              papers[pidx], search_source)
       IN /\ db' = st.db
          /\ txn' = st.db
          /\ failure_log' = st.failure_log
          /\ fetched_pmids' = st.fetched
          /\ attempts' = st.attempts
          /\ batch_inserted' = st.inserted
          /\ batch_failed' = st.failed
          /\ batch_skipped' = st.skipped
    /\ pidx' = pidx + 1
    /\ UNCHANGED <<issued, searches, session, used>>
    /\ UNCHANGED <<search_source, wpc, cur, err, returns, loaded, ncalls, upstreamVars,
                   batch_size, rpc, total_papers, start, papers, total_inserted,
                   total_failed, hist, db0, requested, dbDone, summary>>

\* After the record loop: add the batch's counts, next offset.
EndBatch ==
    /\ rpc = "load"
    /\ pidx > Len(papers)
    /\ total_inserted' = total_inserted + batch_inserted
    /\ total_failed' = total_failed + batch_failed
    /\ start' = start + batch_size
    /\ rpc' = "fetch"
    /\ UNCHANGED <<issued, searches, session, used>>
    /\ UNCHANGED <<loaderVars, upstreamVars, batch_size, fetched_pmids, total_papers,
                   papers, pidx, batch_inserted, batch_failed, batch_skipped, attempts,
                   hist, db0, requested, dbDone, summary>>

\* The figures logged after the loop: inserted, failed, papers in database.
SummaryLines(inserted, failed, fetched) ==
    [line \in {"inserted", "failed", "in database"} |->
        CASE line = "inserted" -> inserted
          [] line = "failed" -> failed
          [] line = "in database" -> Cardinality(fetched)]

\* The page loop is over: the summary.
Summary ==
    /\ rpc = "fetch"
    /\ start >= total_papers
    /\ rpc' = "done"
    /\ dbDone' = IF dbDone = None THEN Some(db) ELSE dbDone
    /\ summary' = Some(SummaryLines(total_inserted, total_failed, fetched_pmids))
    /\ UNCHANGED <<issued, searches, session, used>>
    /\ UNCHANGED <<loaderVars, upstreamVars, batch_size, fetched_pmids, total_papers, start,
                   papers, pidx, total_inserted, total_failed, batch_inserted, batch_failed,
                   batch_skipped, attempts, hist, db0, requested>>

\* run returns or raises; the process ends.
ExitRun ==
    /\ rpc \in {"done", "aborted"}
    /\ hist' = Append(hist, rpc)
    /\ rpc' = "idle"
    /\ UNCHANGED <<issued, searches, session, used>>
    /\ UNCHANGED <<loaderVars, upstreamVars, batch_size, fetched_pmids, total_papers, start,
                   papers, pidx, total_inserted, total_failed, batch_inserted, batch_failed,
                   batch_skipped, attempts, db0, requested, dbDone, summary>>

\* The process is terminated during the run; a load in progress is rolled back.
KillRun ==
    /\ rpc \in {"search", "fetch", "load"}
    /\ hist' = Append(hist, "killed")
    /\ rpc' = "idle"
    /\ UNCHANGED <<issued, searches, session, used>>
    /\ UNCHANGED <<loaderVars, upstreamVars, batch_size, fetched_pmids, total_papers, start,
                   papers, pidx, total_inserted, total_failed, batch_inserted, batch_failed,
                   batch_skipped, attempts, db0, requested, dbDone, summary>>

RunNext ==
    /\ \/ StartRun
       \/ SearchFails
       \/ SearchNoHandle
       \/ SearchAllFetched
       \/ SearchOk
       \/ FetchFails
       \/ ParseFails
       \/ PageParsed
       \/ ProcessRecord
       \/ EndBatch
       \/ Summary
       \/ ExitRun
       \/ KillRun
    /\ UNCHANGED <<clientVars, gateVars, transformVars, backoffVars, testVars, callVars>>

RunSpec == RunInit /\ [][RunNext]_vars

(***************************************************************************)
(* One whole run that nothing interrupts, as a function of the store and   *)
(* the upstream: the store it leaves.                                      *)
(***************************************************************************)
RECURSIVE ProcessPapers(_, _, _, _)
ProcessPapers(st, ps, i, source) ==
    IF i > Len(ps) THEN st
    ELSE ProcessPapers(ProcessPaper(st, ps[i], source), ps, i + 1, source)

RECURSIVE ProcessPages(_, _, _, _, _, _)
ProcessPages(st, offset, count, size, pages, source) ==
    IF offset >= count THEN st
    ELSE LET resp == pages[offset \div size + 1]
         IN ProcessPages(IF resp.kind = "ok" THEN ProcessPapers(st, resp.papers, 1, source)
                         ELSE st,
                         offset + size, count, size, pages, source)

RunToEnd(s, search, count, size, pages, source) ==
    LET fetched == GetFetchedPmids(s)
    IN IF search # "ok" \/ count - Cardinality(fetched) = 0 THEN s
       ELSE ProcessPages([db |-> s, failure_log |-> <<>>, fetched |-> fetched,
                          attempts |-> <<>>, inserted |-> 0, failed |-> 0, skipped |-> 0],
                         0, count, size, pages, source).db

PmidsOf(s) == {p.pmid : p \in s.papers}

(***************************************************************************)
(* Properties of the run (RunSpec).                                        *)
(***************************************************************************)
\* C1: once a run has reached Done, a later run against the store it left and
\* the same upstream inserts nothing: its inserted counts stay 0 and every table
\* of the store stays as the completed run left it.
C1_IdempotentRerun ==
    (\E i \in 1..Len(hist) : hist[i] = "done") =>
        /\ db = dbDone[1]
        /\ rpc # "idle" => (total_inserted = 0 /\ batch_inserted = 0)

C1_Witness ==
    /\ rpc = "done"
    /\ hist = <<"done">>
    /\ batch_skipped > 0
    /\ total_failed > 0

\* The uninterrupted run agrees with the model's steps: a first run that reaches
\* Done leaves the store RunToEnd computes.
RunToEndAgrees ==
    (rpc = "done" /\ hist = <<>>) =>
        db = RunToEnd(db0, up_search, up_count, batch_size, up_pages, search_source)

\* C4: a run after runs that were all terminated ends with the committed papers
\* one uninterrupted run from the first store ends with.
C4_ResumeEquivalence ==
    (rpc = "done" /\ hist # <<>> /\ \A i \in 1..Len(hist) : hist[i] = "killed") =>
        PmidsOf(db) =
            PmidsOf(RunToEnd(db0, up_search, up_count, batch_size, up_pages, search_source))

\* The offsets range(0, total_papers, batch_size) that are below bound.
OffsetsBelow(bound) ==
    {o \in 0..(total_papers - 1) : o % batch_size = 0 /\ o < bound}

\* C11: a page whose fetch_batch or parse_xml_batch raises contributes no
\* load (no insert_paper call, no change of the store) and the run goes on
\* with the next offset; whatever pages fail, every offset below the current
\* one has been requested, in order, and a run that entered the loop is at
\* Done only after requesting every page offset.
C11_PageFailureIsLocal ==
    /\ [][(/\ rpc = "fetch" /\ start < total_papers
           /\ PageOf(start).kind # "ok"
           /\ rpc' # "idle")
             => (/\ db' = db /\ attempts' = attempts /\ failure_log' = failure_log
                 /\ rpc' = "fetch" /\ start' = start + batch_size)]_vars
    /\ [](rpc \in {"fetch", "load"} =>
            /\ {requested[i].retstart : i \in 1..Len(requested)}
                  = OffsetsBelow(IF rpc = "load" THEN start + 1 ELSE start)
            /\ \A i \in 1..Len(requested) : requested[i].retstart = (i - 1) * batch_size)
    /\ []((rpc = "done" /\ requested # <<>>) =>
            {requested[i].retstart : i \in 1..Len(requested)} = OffsetsBelow(total_papers))

C11_Witness ==
    /\ rpc = "done"
    /\ Len(requested) = 2
    /\ PageOf(0).kind # "ok"
    /\ attempts # <<>>

\* C12: a run whose search call raises or returns no resume handle ends in
\* Aborted, having requested no page and called insert_paper for nothing,
\* with the store as the run found it (the search phase writes nothing); a
\* run is Aborted only from its search phase and only for such a search, so
\* no other failure ends a run before its page offsets are visited.
C12_SearchFailureIsFatal ==
    /\ [](rpc \in {"fetch", "load", "done"} => up_search = "ok")
    /\ [](rpc = "aborted" =>
            /\ up_search \in {"error", "no_webenv"}
            /\ requested = <<>> /\ attempts = <<>>
            /\ total_inserted = 0 /\ total_failed = 0)
    /\ [][(rpc = "idle" \/ rpc = "search") => (db' = db /\ failure_log' = failure_log)]_vars
    /\ [][rpc' = "aborted" => rpc = "search"]_vars

C12_Witness ==
    /\ rpc = "aborted"
    /\ up_search = "no_webenv"
    /\ db # EmptyStore
    /\ hist = <<"aborted">>

\* The result indices a fetch_batch call asks for: retmax of them from retstart.
RequestedIndices(r) == r.retstart .. (r.retstart + r.retmax - 1)

\* C13: the index ranges the run's fetch_batch calls ask for never hold an
\* index at or beyond the search's total count, and at the end of a run that
\* entered the page loop they cover 0 .. total count - 1.
C13_PaginationInsideSnapshot ==
    /\ \A i \in 1..Len(requested) :
          \A x \in RequestedIndices(requested[i]) : x < total_papers
    /\ (rpc = "done" /\ requested # <<>>) =>
          UNION {RequestedIndices(requested[i]) : i \in 1..Len(requested)}
              = 0..(total_papers - 1)

\* C28 (trivial completion): a run whose search reports a count equal to
\* the number of processed identifiers it read goes from the search phase
\* to Done, having requested no page and called insert_paper for nothing,
\* and leaves the store as it is; a run whose search reports any other
\* count, smaller counts included, enters the page loop at offset 0, and
\* is at Done only after requesting every page offset below the count.
C28_TrivialCompletion ==
    /\ [][(rpc = "search" /\ up_search = "ok" /\ rpc' # "idle"
             /\ up_count = Cardinality(fetched_pmids))
             => (/\ rpc' = "done" /\ requested' = <<>> /\ attempts' = <<>>
                 /\ summary' = None
                 /\ db' = db /\ failure_log' = failure_log)]_vars
    /\ [][(rpc = "search" /\ up_search = "ok" /\ rpc' # "idle"
             /\ up_count # Cardinality(fetched_pmids))
             => (/\ rpc' = "fetch" /\ start' = 0 /\ total_papers' = up_count
                 /\ requested' = <<>>)]_vars
    /\ []((rpc = "done" /\ summary = None) =>
            /\ requested = <<>> /\ attempts = <<>>
            /\ total_papers = Cardinality(fetched_pmids))
    /\ []((rpc = "done" /\ summary # None) =>
            /\ {requested[i].retstart : i \in 1..Len(requested)} = OffsetsBelow(total_papers)
            /\ Len(requested) = NumPages(total_papers, batch_size))

\* A run that read more processed identifiers than its search counts,
\* requested every page and found nothing to load.
C28_Witness ==
    /\ rpc = "done" /\ summary # None
    /\ attempts = <<>>
    /\ total_papers < Cardinality(fetched_pmids)
    /\ Len(requested) = 2

\* C31 (stable result set): a run calls search once, before its first
\* fetch_batch call, and never again, whatever pages fail; every
\* fetch_batch call of the run sends the WebEnv and query key that one
\* search returned.
C31_StableResultSet ==
    /\ [](Len(searches) <= 1)
    /\ [](rpc \in {"fetch", "load", "done"} =>
            (Len(searches) = 1 /\ searches[1] # None /\ session = searches[1]))
    /\ [][(rpc = "fetch" \/ rpc = "load" \/ rpc = "done" \/ rpc = "aborted")
            => (searches' = searches \/ rpc' = "search")]_vars
    /\ [](Len(used) = Len(requested))
    /\ [](\A i \in 1..Len(used) :
            /\ Len(searches) = 1 /\ searches[1] # None
            /\ used[i].WebEnv = searches[1][1].webenv
            /\ used[i].query_key = searches[1][1].query_key
            /\ used[i].WebEnv # None)

\* The second run of a behaviour requested two pages, the first of which
\* failed, both with the token of its own search.
C31_Witness ==
    /\ rpc = "done"
    /\ Len(hist) = 1
    /\ Len(used) = 2
    /\ PageOf(0).kind # "ok"
    /\ used[1].WebEnv = Some(2) /\ used[2].WebEnv = Some(2)

\* The identifiers of the record graphs the search's result set yields, page
\* by page.
ResultSetPmids ==
    UNION {{up_pages[i].papers[k].pmid : k \in 1..Len(up_pages[i].papers)} :
             i \in DOMAIN up_pages}

\* No fetch_batch and no parse_xml_batch call of the result set raises.
NoPageFails == \A i \in DOMAIN up_pages : up_pages[i].kind = "ok"

\* The identifier is accounted for: processed in the store, or on a line of
\* the failure log.
AccountedFor(pmid) ==
    \/ pmid \in GetFetchedPmids(db)
    \/ \E i \in 1..Len(failure_log) : failure_log[i].pmid = pmid

\* A run that went through the page loop with no page failing accounts for
\* every identifier of the result set.
LoopAccountsForAll ==
    (rpc = "done" /\ summary # None /\ NoPageFails) =>
        \A pmid \in ResultSetPmids : AccountedFor(pmid)

\* C34 (no silent loss): at Done, in a behaviour where no page fetch and no
\* transform fails, every identifier of the search's result set that yields
\* a record graph is in the processed set of the store or on a line of the
\* failure log, whatever store the run started from.
C34_NoSilentLoss ==
    (rpc = "done" /\ NoPageFails) =>
        \A pmid \in ResultSetPmids : AccountedFor(pmid)

\* C35 (cache coherence): from the moment a run has read the processed set
\* to its end, between record loads, the in-memory processed set is the set
\* get_fetched_pmids returns from the store; insert_paper is called only
\* for an identifier that is not processed in the store; and the database
\* total a first run reports is the number of identifiers processed in the
\* store it started from plus the total it reports as inserted.
C35_CacheCoherence ==
    /\ [](rpc \in {"search", "fetch", "load", "done", "aborted"} =>
            fetched_pmids = GetFetchedPmids(db))
    /\ [][(attempts' # attempts /\ rpc = "load")
            => (/\ attempts' = Append(attempts, papers[pidx].pmid)
                /\ papers[pidx].pmid \notin GetFetchedPmids(db))]_vars
    /\ []((rpc = "done" /\ summary # None) =>
            summary[1]["in database"] = Cardinality(GetFetchedPmids(db)))
    /\ []((rpc = "done" /\ summary # None /\ hist = <<>>) =>
            summary[1]["in database"]
                = Cardinality(GetFetchedPmids(db0)) + summary[1]["inserted"])

\* A first run that started from a store with a processed identifier
\* skipped it, inserted another and reports two papers in the database.
C35_Witness ==
    /\ rpc = "done" /\ summary # None /\ hist = <<>>
    /\ Cardinality(GetFetchedPmids(db0)) = 1
    /\ summary[1]["inserted"] = 1
    /\ summary[1]["in database"] = 2
    /\ Len(attempts) = 1

\* C10: within one run insert_paper is called at most once per identifier.
C10_AtMostOneAttempt ==
    \A i, j \in 1..Len(attempts) : i # j => attempts[i] # attempts[j]

(***************************************************************************)
(* Properties of the loader (LoaderSpec).                                  *)
(***************************************************************************)
AuthorKey(a) == <<a.last_name, a.fore_name, a.orcid>>

LinksOf(s, pmid) == {l \in s.paper_authors : l.pmid = pmid}

CitationsOf(s, pmid) ==
    LET rows == SelectSeq(s.citations, LAMBDA c : c.citing_pmid = pmid)
    IN [i \in 1..Len(rows) |->
          [cited_pmid |-> rows[i].cited_pmid, cited_doi |-> rows[i].cited_doi,
           citation_text |-> rows[i].citation_text]]

SuccessRows(s) == SelectSeq(s.fetch_log, LAMBDA r : r.fetch_success)

\* The whole record graph of paper is in s: its paper row, one link per author
\* at the author's position, to an author row with the author's composite key,
\* and its citations in order.
GraphCommitted(s, paper) ==
    /\ [pmid |-> paper.pmid, title |-> paper.title] \in s.papers
    /\ Cardinality(LinksOf(s, paper.pmid)) = Len(paper.authors)
    /\ \A i \in 1..Len(paper.authors) :
          \E l \in LinksOf(s, paper.pmid) :
              /\ l.author_position = paper.authors[i].position
              /\ l.author_id \in 1..Len(s.authors)
              /\ AuthorKey(s.authors[l.author_id]) = AuthorKey(paper.authors[i])
    /\ CitationsOf(s, paper.pmid) = paper.citations

\* No row of any table of s belongs to pmid.
Absent(s, pmid) ==
    /\ ~PapersKeyTaken(s, pmid)
    /\ LinksOf(s, pmid) = {}
    /\ CitationsOf(s, pmid) = <<>>
    /\ \A i \in 1..Len(s.fetch_log) : s.fetch_log[i].pmid # pmid
    /\ \A r \in s.paper_open_access \cup s.paper_search_sources : r.pmid # pmid

ReturnedTrue(pmid) == \E i \in 1..Len(returns) : returns[i].pmid = pmid /\ returns[i].result

\* C2: an identifier is in get_fetched_pmids exactly when an insert_paper call
\* returned True for it, its whole record graph is then committed, and there
\* are as many successful fetch_log rows as committed papers.
C2_ProcessedSetOracle ==
    /\ \A pmid \in PMIDs : (pmid \in GetFetchedPmids(db)) <=> ReturnedTrue(pmid)
    /\ \A pmid \in GetFetchedPmids(db) :
          /\ loaded[pmid] # None
          /\ GraphCommitted(db, loaded[pmid][1])
    /\ Len(SuccessRows(db)) = Cardinality(db.papers)

C2_Witness ==
    /\ wpc = "idle"
    /\ \E i, j \in 1..Len(returns) : returns[i].result /\ ~returns[j].result
    /\ \E pmid \in GetFetchedPmids(db) :
          LinksOf(db, pmid) # {} /\ CitationsOf(db, pmid) # <<>>

\* C3: in every state, inside a transaction or after a termination, the
\* committed store holds for each identifier either its whole record graph
\* with the success row, or no row at all, and no author row that no
\* committed link uses.
C3_Atomicity ==
    /\ \A pmid \in PMIDs :
          \/ Absent(db, pmid)
          \/ /\ pmid \in GetFetchedPmids(db)
             /\ \E paper \in PaperDicts : paper.pmid = pmid /\ GraphCommitted(db, paper)
    /\ \A a \in 1..Len(db.authors) : \E l \in db.paper_authors : l.author_id = a

C3_Witness ==
    /\ wpc = "except"
    /\ db.papers # {}
    /\ PapersKeyTaken(txn, cur.pmid) /\ ~PapersKeyTaken(db, cur.pmid)
    /\ Len(txn.authors) > Len(db.authors)

\* C5: a failed call returns False, raises nothing, and adds exactly one line
\* (identifier, error message) to the failure log; a call returning True adds
\* none: the log's lines are the False returns, in order.
C5_FailureAsData ==
    LET falses == SelectSeq(returns, LAMBDA r : ~r.result)
    IN /\ \A i \in 1..Len(returns) : ~returns[i].raised
       /\ Len(failure_log) = Len(falses)
       /\ \A i \in 1..Len(falses) :
             /\ failure_log[i].pmid = falses[i].pmid
             /\ failure_log[i].error_message = falses[i].error
             /\ falses[i].error # ""

C5_Witness ==
    /\ Len(failure_log) = 1
    /\ \E i \in 1..Len(returns) : returns[i].result
    /\ failure_log[1].error_message = "UNIQUE constraint failed: paper_authors"

\* The fetch_log rows of the committed store for pmid with the given flag.
FetchLogRows(s, pmid, success) ==
    SelectSeq(s.fetch_log, LAMBDA r : r.pmid = pmid /\ r.fetch_success = success)

\* The insert_paper calls for pmid that returned the given result.
ReturnsOf(pmid, result) ==
    SelectSeq(returns, LAMBDA r : r.pmid = pmid /\ r.result = result)

\* C29 (fetch log records every attempt): between insert_paper calls the
\* committed fetch_log holds one row per call that returned: for every
\* identifier as many success rows as calls that returned True and as many
\* failure rows as calls that returned False.
C29_FetchLogRecordsEveryAttempt ==
    wpc = "idle" =>
        /\ Len(db.fetch_log) = Len(returns)
        /\ \A pmid \in PMIDs :
              /\ Len(FetchLogRows(db, pmid, TRUE)) = Len(ReturnsOf(pmid, TRUE))
              /\ Len(FetchLogRows(db, pmid, FALSE)) = Len(ReturnsOf(pmid, FALSE))

(***************************************************************************)
(* ClientSpec: one caller using one client, one _retry_request call after  *)
(* the other, each attempt meeting any outcome.                            *)
(***************************************************************************)
RateLimits == {3, 10}
BackoffCaps == {1, 60}
Latencies == {0, 1}       \* ticks an attempt takes to answer
Gaps == {0, 1}            \* ticks the caller lets pass before a call

ClientInit ==
    /\ db = EmptyStore /\ txn = EmptyStore
    /\ failure_log = <<>>
    /\ search_source = "title_abstract"
    /\ wpc = "idle" /\ cur = NoPaper /\ err = ""
    /\ returns = <<>> /\ loaded = [p \in PMIDs |-> None] /\ ncalls = 0
    /\ RunIdle
    /\ rate_limit \in RateLimits
    /\ max_retries \in 0..MaxRetries
    /\ backoff_base = 2
    /\ backoff_max \in BackoffCaps
    /\ min_interval = MinInterval(rate_limit)
    /\ last_request_time = 0
    /\ now = min_interval
    /\ cpc = "idle" /\ attempt = 0
    /\ n_attempts = 0 /\ succeeded = FALSE
    /\ last_outcome = NoOutcome /\ last_wait = None /\ raised_kind = "none"
    /\ nrequests = 0 /\ nstarts = 0
    /\ first_start = None /\ prev_start = None /\ last_start = None
    /\ GateIdle
    /\ TransformIdle
    /\ BackoffIdle
    /\ LinkTestIdle
    /\ CallIdle

clientConfig == <<rate_limit, max_retries, backoff_base, backoff_max, min_interval>>

\* The caller calls _retry_request (through search or fetch_batch).
CallRetryRequest ==
    /\ cpc \in {"idle", "returned", "raised"}
    /\ nrequests < MaxRequests
    /\ \E gap \in Gaps : now' = now + gap
    /\ cpc' = "loop"
    /\ attempt' = 0
    /\ n_attempts' = 0 /\ succeeded' = FALSE
    /\ last_outcome' = NoOutcome /\ last_wait' = None /\ raised_kind' = "none"
    /\ nrequests' = nrequests + 1
    /\ UNCHANGED <<clientConfig, last_request_time, nstarts,
                   first_start, prev_start, last_start>>

\* One iteration of the loop: the gate, the request, the handler.
Attempt(outcomes) ==
    /\ cpc = "loop"
    /\ InRange(attempt, max_retries)
    /\ \E o \in outcomes, latency \in Latencies :
          LET gate == WaitIfNeeded(now, last_request_time, min_interval)
              h == HandleAttempt(attempt, max_retries, backoff_base, backoff_max, o)
              slept == IF h.sleep = None THEN 0
                       ELSE SecondsToTicks(h.sleep[1], rate_limit)
          IN  /\ last_request_time' = gate.last_request_time
              /\ now' = gate.now + latency + slept
              /\ nstarts' = nstarts + 1
              /\ first_start' = IF first_start = None THEN Some(gate.now) ELSE first_start
              /\ prev_start' = last_start
              /\ last_start' = Some(gate.now)
              /\ n_attempts' = n_attempts + 1
              /\ last_outcome' = o
              /\ last_wait' = h.sleep
              /\ succeeded' = (succeeded \/ h.act = "return")
              /\ raised_kind' = h.exc
              /\ cpc' = CASE h.act = "return" -> "returned"
                          [] h.act = "raise" -> "raised"
                          [] OTHER -> "loop"
              /\ attempt' = IF h.act = "continue" THEN attempt + 1 ELSE attempt
    /\ UNCHANGED <<clientConfig, nrequests>>

OutcomesOf(kind, statuses) ==
    {o \in Outcomes : o.kind = kind /\ o.status \in statuses}

AttemptSucceeds == Attempt(OutcomesOf("response", {st \in Statuses : ~RaisesForStatus(st)}))
AttemptTimesOut == Attempt(OutcomesOf("timeout", {0}))
AttemptConnectionError == Attempt(OutcomesOf("connection_error", {0}))
AttemptRateLimited == Attempt(OutcomesOf("response", {429}))
AttemptServerError == Attempt(OutcomesOf("response", {st \in Statuses : 500 <= st /\ st < 600}))
AttemptClientError ==
    Attempt(OutcomesOf("response", {st \in Statuses : 400 <= st /\ st < 500 /\ st # 429}))

\* The loop ends without a return or a raise inside it: line 170.
LoopExhausted ==
    /\ cpc = "loop"
    /\ ~InRange(attempt, max_retries)
    /\ cpc' = "raised"
    /\ raised_kind' = "RequestException"
    /\ UNCHANGED <<clientConfig, last_request_time, now, attempt, n_attempts, succeeded,
                   last_outcome, last_wait, nrequests, nstarts,
                   first_start, prev_start, last_start>>

ClientNext ==
    /\ \/ CallRetryRequest
       \/ AttemptSucceeds
       \/ AttemptTimesOut
       \/ AttemptConnectionError
       \/ AttemptRateLimited
       \/ AttemptServerError
       \/ AttemptClientError
       \/ LoopExhausted
    /\ UNCHANGED <<loaderVars, upstreamVars, runVars, gateVars, transformVars, backoffVars, testVars, callVars>>

\* A step of a call in progress.  An attempt ends (the request has a
\* timeout) and a sleep returns, so a call in progress takes its next step.
RetryRequestStep == cpc = "loop" /\ ClientNext

ClientSpec == ClientInit /\ [][ClientNext]_vars /\ WF_vars(RetryRequestStep)

\* C6 (bounded retry): a call of _retry_request issues at most max_retries
\* HTTP attempts, issues no attempt after an attempt of it succeeded, and
\* ends by returning a response or by raising, also when max_retries is 0.
C6_BoundedRetry ==
    /\ [](n_attempts <= max_retries)
    /\ [][n_attempts' > n_attempts => ~succeeded]_vars
    /\ [](succeeded => cpc = "returned")
    /\ (cpc = "loop") ~> (cpc \in {"returned", "raised"})

C6_Witness ==
    /\ cpc = "raised" /\ max_retries = MaxRetries /\ n_attempts = max_retries
    /\ last_outcome.kind = "response" /\ last_outcome.status = 503

\* C7 (client errors are never retried): an attempt answered with a 4xx
\* status other than 429 makes _retry_request raise at once, with no
\* further attempt and no sleep, however many attempts remain.
ClientErrorStatus(o) ==
    o.kind = "response" /\ 400 <= o.status /\ o.status < 500 /\ o.status # 429

C7_ClientErrorNotRetried ==
    ClientErrorStatus(last_outcome) =>
        /\ cpc = "raised" /\ raised_kind = "HTTPError"
        /\ last_wait = None
        /\ attempt = n_attempts - 1

C7_Witness ==
    /\ ClientErrorStatus(last_outcome) /\ cpc = "raised"
    /\ n_attempts < max_retries

\* C8 (rate gate, single caller): two consecutive HTTP attempts of one
\* client, first attempts and retries alike, start at least min_interval
\* (1/rate_limit seconds) apart, so K attempts span at least
\* (K-1) * min_interval.
C8_RateGate ==
    /\ prev_start # None => last_start[1] - prev_start[1] >= min_interval
    /\ nstarts >= 1 => last_start[1] - first_start[1] >= (nstarts - 1) * min_interval

C8_Witness ==
    /\ nstarts >= 3
    /\ last_start[1] - prev_start[1] = min_interval
    /\ last_start[1] - first_start[1] = (nstarts - 1) * min_interval

\* The attempt just made was answered with HTTP 429.
RateLimitedStatus(o) == o.kind = "response" /\ o.status = 429

\* The attempt just made was answered with a 5xx status.
ServerErrorStatus(o) ==
    o.kind = "response" /\ 500 <= o.status /\ o.status < 600

\* C26 (429 handling): an attempt answered with HTTP 429 makes the client
\* sleep the Retry-After delay the server sent, or 60 seconds where the
\* server sent none; the attempt counts toward max_retries; the call then
\* goes on to its next attempt, or, if that was the last attempt the
\* budget allows, raises the HTTPError of the 429.
C26_RateLimitedHandling ==
    RateLimitedStatus(last_outcome) =>
        /\ last_wait # None
        /\ last_outcome.retry_after = None => last_wait = Some(60)
        /\ last_outcome.retry_after = Some("0") => last_wait = Some(0)
        /\ n_attempts <= max_retries
        /\ cpc = "loop" => attempt = n_attempts
        /\ cpc # "loop" =>
              /\ cpc = "raised" /\ raised_kind = "HTTPError"
              /\ n_attempts = max_retries

\* C27 (exhaustion error kind): when the attempt that uses up max_retries
\* fails with a timeout, _retry_request raises Timeout; when it fails with
\* a 5xx status, _retry_request raises the HTTPError of that response,
\* whatever timeouts, 429s and 5xx responses the attempts before it met.
\* An attempt a that fails with a timeout or a 5xx status and is not the
\* last one is followed by a sleep of min(backoff_base^a, backoff_max)
\* seconds.
C27_ExhaustionErrorKind ==
    /\ (n_attempts >= 1 /\ n_attempts = max_retries /\ last_outcome.kind = "timeout") =>
          cpc = "raised" /\ raised_kind = "Timeout"
    /\ (n_attempts >= 1 /\ n_attempts = max_retries /\ ServerErrorStatus(last_outcome)) =>
          cpc = "raised" /\ raised_kind = "HTTPError"
    /\ (n_attempts >= 1 /\ n_attempts < max_retries
          /\ (last_outcome.kind = "timeout" \/ ServerErrorStatus(last_outcome))) =>
          /\ cpc = "loop" /\ attempt = n_attempts
          /\ last_wait = Some(IF Pow(backoff_base, n_attempts - 1) <= backoff_max
                              THEN Pow(backoff_base, n_attempts - 1)
                              ELSE backoff_max)

C27_Witness ==
    /\ cpc = "loop" /\ max_retries = MaxRetries /\ n_attempts = 2
    /\ ServerErrorStatus(last_outcome)
    /\ backoff_max = 60 /\ last_wait = Some(2)

\* The call raised on the attempt that used up max_retries.
RaisedOnLastAttempt == cpc = "raised" /\ n_attempts >= 1 /\ n_attempts = max_retries

\* After a last attempt that timed out or met a 5xx status the call raises
\* without a sleep.
NoWaitAfterTimeoutOrServerError ==
    (RaisedOnLastAttempt
       /\ (last_outcome.kind = "timeout" \/ ServerErrorStatus(last_outcome))) =>
        last_wait = None

\* C36 (no wait after the final attempt): when the attempt that uses up
\* max_retries fails with a timeout, a 429 or a 5xx status, _retry_request
\* raises without calling time.sleep for a backoff or a Retry-After delay.
C36_NoWaitAfterFinalAttempt ==
    (RaisedOnLastAttempt
       /\ (\/ last_outcome.kind = "timeout"
           \/ RateLimitedStatus(last_outcome)
           \/ ServerErrorStatus(last_outcome))) =>
        last_wait = None

(***************************************************************************)
(* GateSpec: NumCallers threads call requests on one client.  The client   *)
(* holds no lock, so the statements of _wait_if_needed of one caller       *)
(* interleave with those of the others; a sleep ends at its time or later. *)
(***************************************************************************)
GateInit ==
    /\ db = EmptyStore /\ txn = EmptyStore
    /\ failure_log = <<>>
    /\ search_source = "title_abstract"
    /\ wpc = "idle" /\ cur = NoPaper /\ err = ""
    /\ returns = <<>> /\ loaded = [p \in PMIDs |-> None] /\ ncalls = 0
    /\ RunIdle
    /\ rate_limit \in RateLimits
    /\ max_retries = 3 /\ backoff_base = 2 /\ backoff_max = 60
    /\ min_interval = MinInterval(rate_limit)
    /\ last_request_time = 0
    /\ now = min_interval
    /\ cpc = "idle" /\ attempt = 0
    /\ n_attempts = 0 /\ succeeded = FALSE
    /\ last_outcome = NoOutcome /\ last_wait = None /\ raised_kind = "none"
    /\ nrequests = 0 /\ nstarts = 0
    /\ first_start = None /\ prev_start = None /\ last_start = None
    /\ GateIdle
    /\ TransformIdle
    /\ BackoffIdle
    /\ LinkTestIdle
    /\ CallIdle

gateFixed == <<clientConfig, cpc, attempt, n_attempts, succeeded, last_outcome,
               last_wait, raised_kind, nrequests>>

\* elapsed = time.time() - self.last_request_time, and the test on it
ReadElapsed(c) ==
    /\ gpc[c] = "idle"
    /\ gcalls[c] < MaxRequests
    /\ gcalls' = [gcalls EXCEPT ![c] = @ + 1]
    /\ elapsed' = [elapsed EXCEPT ![c] = now - last_request_time]
    /\ IF elapsed'[c] < min_interval
       THEN /\ gpc' = [gpc EXCEPT ![c] = "sleep"]
            /\ wake' = [wake EXCEPT ![c] = now + (min_interval - elapsed'[c])]
       ELSE /\ gpc' = [gpc EXCEPT ![c] = "stamp"]
            /\ UNCHANGED wake
    /\ UNCHANGED <<gateFixed, now, last_request_time, nstarts,
                   first_start, prev_start, last_start>>

\* time.sleep(self.min_interval - elapsed) returns
Wake(c) ==
    /\ gpc[c] = "sleep"
    /\ now >= wake[c]
    /\ gpc' = [gpc EXCEPT ![c] = "stamp"]
    /\ UNCHANGED <<gateFixed, now, last_request_time, nstarts,
                   first_start, prev_start, last_start, elapsed, wake, gcalls>>

\* self.last_request_time = time.time(), and the attempt starts
StampAndGet(c) ==
    /\ gpc[c] = "stamp"
    /\ last_request_time' = now
    /\ nstarts' = nstarts + 1
    /\ first_start' = IF first_start = None THEN Some(now) ELSE first_start
    /\ prev_start' = last_start
    /\ last_start' = Some(now)
    /\ gpc' = [gpc EXCEPT ![c] = "idle"]
    /\ UNCHANGED <<gateFixed, now, elapsed, wake, gcalls>>

Tick ==
    /\ now < MaxClock
    /\ now' = now + 1
    /\ UNCHANGED <<gateFixed, last_request_time, nstarts,
                   first_start, prev_start, last_start, gateVars>>

CallerReads == \E c \in Callers : ReadElapsed(c)
CallerWakes == \E c \in Callers : Wake(c)
CallerStamps == \E c \in Callers : StampAndGet(c)

GateNext ==
    /\ \/ CallerReads
       \/ CallerWakes
       \/ CallerStamps
       \/ Tick
    /\ UNCHANGED <<loaderVars, upstreamVars, runVars, transformVars, backoffVars, testVars, callVars>>

GateSpec == GateInit /\ [][GateNext]_vars

\* C9 (rate gate under caller concurrency): with two or more callers using
\* one client concurrently, under every interleaving of their
\* _wait_if_needed steps no two HTTP attempts start less than min_interval
\* (1/rate_limit seconds) apart.
C9_ConcurrentRateGate ==
    prev_start # None => last_start[1] - prev_start[1] >= min_interval

(***************************************************************************)
(* TransformSpec: parse_xml_batch on one batch of documents, then          *)
(* insert_paper on each record graph it returned, against an empty store.  *)
(***************************************************************************)
JaneElem ==
    [last_name |-> Elem(Some("Smith")), fore_name |-> Elem(Some("Jane")),
     initials |-> Elem(Some("J")), orcid |-> None]

\* An Author element with no LastName child.
NoLastNameElem == [JaneElem EXCEPT !.last_name = NoElem]

\* A document with every field parse_paper reads in order.
Good(p) ==
    [pmid |-> Elem(Some(ToString(p))), title |-> Elem(Some("T")),
     year |-> Elem(Some("1999")), day |-> NoElem,
     authors |-> <<JaneElem>>, refs |-> <<>>]

PubmedRef(text) == [pubmed |-> Elem(Some(text)), doi |-> None]

\* Documents that have an identifier and a title.
WellFormed(p) ==
    { Good(p),
      [Good(p) EXCEPT !.title = Elem(Some(" T "))],
      [Good(p) EXCEPT !.title = MarkupElem],
      [Good(p) EXCEPT !.day = Elem(Some("15"))],
      [Good(p) EXCEPT !.refs = <<PubmedRef("7")>>],
      [Good(p) EXCEPT !.authors = <<NoLastNameElem>>] }

\* Documents missing the identifier or the title: the element is absent or empty.
MissingIdentifier ==
    { [Good(1) EXCEPT !.pmid = NoElem], [Good(1) EXCEPT !.pmid = Elem(None)] }
MissingTitle(p) ==
    { [Good(p) EXCEPT !.title = NoElem], [Good(p) EXCEPT !.title = Elem(None)] }

\* A title of white space only.
BlankTitle(p) == [Good(p) EXCEPT !.title = Elem(Some("  "))]

\* Documents with one field value that int() rejects.
Malformed(p) ==
    { [Good(p) EXCEPT !.pmid = Elem(Some("abc"))],
      [Good(p) EXCEPT !.year = Elem(Some("199x"))],
      [Good(p) EXCEPT !.day = Elem(Some("1st"))],
      [Good(p) EXCEPT !.refs = <<PubmedRef("PMC1")>>] }

Documents ==
    MissingIdentifier
    \cup UNION {WellFormed(p) \cup MissingTitle(p) \cup {BlankTitle(p)} \cup Malformed(p) : p \in PMIDs}

MaxDocs == 2

\* The fixture of the end-to-end scenario: five documents, the third without
\* a title, the fifth with one author who has no last name.
ScenarioBatch ==
    <<Good(1), Good(2), [Good(3) EXCEPT !.title = NoElem], Good(4),
      [Good(5) EXCEPT !.authors = <<NoLastNameElem>>]>>

TransformInit ==
    /\ db = EmptyStore
    /\ txn = EmptyStore
    /\ failure_log = <<>>
    /\ search_source \in {"title_abstract"}
    /\ wpc = "idle" /\ cur = NoPaper /\ err = ""
    /\ returns = <<>> /\ loaded = [p \in PMIDs |-> None] /\ ncalls = 0
    /\ RunIdle
    /\ ClientIdle
    /\ GateIdle
    /\ BackoffIdle
    /\ LinkTestIdle
    /\ CallIdle
    /\ docs \in SeqsUpTo(Documents, MaxDocs) \cup {ScenarioBatch}
    /\ tpc = "parse"
    /\ parsed = <<>> /\ diagnostics = <<>>
    /\ reached = <<>> /\ lidx = 1

\* papers = parse_xml_batch(xml_data) returns.
TransformReturns ==
    /\ tpc = "parse"
    /\ ~ParseXmlBatch(docs).raised
    /\ parsed' = ParseXmlBatch(docs).papers
    /\ diagnostics' = ParseXmlBatch(docs).warnings
    /\ tpc' = "load"
    /\ UNCHANGED <<loaderVars, docs, reached, lidx>>

\* papers = parse_xml_batch(xml_data) raises: nothing is returned.
TransformRaises ==
    /\ tpc = "parse"
    /\ ParseXmlBatch(docs).raised
    /\ parsed' = <<>>
    /\ diagnostics' = ParseXmlBatch(docs).warnings
    /\ tpc' = "raised"
    /\ UNCHANGED <<loaderVars, docs, reached, lidx>>

\* writer.insert_paper(paper) for the next record graph.
LoadRecord ==
    /\ tpc = "load"
    /\ lidx <= Len(parsed)
    /\ LET r == InsertPaper(db, failure_log, parsed[lidx], search_source)
       IN /\ db' = r.db
          /\ txn' = r.db
          /\ failure_log' = r.failure_log
          /\ returns' = Append(returns, [pmid |-> parsed[lidx].pmid, result |-> r.result,
                                         raised |-> r.raised])
    /\ reached' = Append(reached, parsed[lidx])
    /\ lidx' = lidx + 1
    /\ UNCHANGED <<search_source, wpc, cur, err, loaded, ncalls, docs, tpc, parsed, diagnostics>>

LoadDone ==
    /\ tpc = "load"
    /\ lidx > Len(parsed)
    /\ tpc' = "done"
    /\ UNCHANGED <<loaderVars, docs, parsed, diagnostics, reached, lidx>>

TransformNext ==
    /\ \/ TransformReturns
       \/ TransformRaises
       \/ LoadRecord
       \/ LoadDone
    /\ UNCHANGED <<upstreamVars, runVars, clientVars, gateVars, backoffVars, testVars, callVars>>

TransformSpec == TransformInit /\ [][TransformNext]_vars

(***************************************************************************)
(* Properties of the transform.                                            *)
(***************************************************************************)
IsWellFormed(doc) == \E p \in Numbers : doc \in WellFormed(p)
IsMissingIdOrTitle(doc) ==
    doc \in MissingIdentifier \/ \E p \in Numbers : doc \in MissingTitle(p)

\* The identifier a document carries.
PmidOfDoc(doc) == IntOf(doc.pmid.text[1])[1]

\* C14: for a batch of N well-formed documents and M documents each missing
\* the identifier or the title, in any order, parse_xml_batch does not raise,
\* returns exactly the N record graphs of the well-formed documents in
\* document order, and logs exactly M skip diagnostics.
C14_TransformLeniency ==
    (/\ tpc # "parse"
     /\ \A i \in DOMAIN docs : IsWellFormed(docs[i]) \/ IsMissingIdOrTitle(docs[i]))
    => LET well_formed == SelectSeq(docs, IsWellFormed)
           missing == SelectSeq(docs, IsMissingIdOrTitle)
       IN /\ tpc # "raised"
          /\ Len(parsed) = Len(well_formed)
          /\ \A i \in DOMAIN parsed : parsed[i].pmid = PmidOfDoc(well_formed[i])
          /\ Len(diagnostics) = Len(missing)

IsMalformed(doc) == \E p \in Numbers : doc \in Malformed(p)
IsGood(doc) == \E p \in Numbers : doc = Good(p)

\* C15: when one document of a batch carries a field value that is not a
\* number where one is expected (identifier, year, day, cited identifier) and
\* the other documents are in order, parse_xml_batch does not raise and
\* returns the record graph of every other document.
C15_MalformedNeverAborts ==
    \A i \in DOMAIN docs :
        (/\ tpc # "parse"
         /\ IsMalformed(docs[i])
         /\ \A j \in DOMAIN docs \ {i} : IsGood(docs[j]))
        => /\ tpc # "raised"
           /\ \A j \in DOMAIN docs \ {i} :
                 \E k \in DOMAIN parsed : parsed[k].pmid = PmidOfDoc(docs[j])

\* C16: every committed paper row has an integer identifier taken from its
\* document and a non-empty title, and no record graph with an empty title
\* (a document whose title is missing or is white space only) reaches
\* insert_paper.
C16_PaperValidity ==
    /\ \A row \in db.papers :
          /\ row.title # ""
          /\ \E i \in DOMAIN docs :
                /\ docs[i].pmid.elem /\ ~NoText(docs[i].pmid)
                /\ IntOf(docs[i].pmid.text[1]) = Some(row.pmid)
    /\ \A k \in DOMAIN reached : reached[k].title # ""

(***************************************************************************)
(* IdentitySpec: insert_paper calls, one after the other, with record      *)
(* graphs whose authors differ in given name and in ORCID.                 *)
(***************************************************************************)
IdentityMentions ==
    AuthorMentions
    \cup { [last_name |-> "Smith", fore_name |-> Some("Jane"), initials |-> Some("J"),
            orcid |-> Some("0000-0001")] }

IdentityPapers ==
    [pmid : PMIDs, title : {"T"},
     authors : {WithPositions(m) : m \in SeqsUpTo(IdentityMentions, MaxAuthors)},
     citations : {<<>>}, open_access : {None}]

IdentityInit ==
    /\ db = EmptyStore
    /\ txn = EmptyStore
    /\ failure_log = <<>>
    /\ search_source \in SearchSources
    /\ wpc = "idle" /\ cur = NoPaper /\ err = ""
    /\ returns = <<>> /\ loaded = [p \in PMIDs |-> None] /\ ncalls = 0
    /\ RunIdle
    /\ ClientIdle
    /\ GateIdle
    /\ TransformIdle
    /\ BackoffIdle
    /\ LinkTestIdle
    /\ CallIdle

\* One whole insert_paper call that returns what result says.
InsertPaperCall(paper, result) ==
    /\ ncalls < MaxCalls
    /\ paper.pmid \in CallablePmids
    /\ LET r == InsertPaper(db, failure_log, paper, search_source)
       IN /\ r.result = result
          /\ db' = r.db
          /\ txn' = r.db
          /\ failure_log' = r.failure_log
          /\ returns' = Append(returns, [pmid |-> paper.pmid, result |-> r.result,
                                         raised |-> r.raised])
    /\ loaded' = IF result THEN [loaded EXCEPT ![paper.pmid] = Some(paper)] ELSE loaded
    /\ ncalls' = ncalls + 1
    /\ UNCHANGED <<search_source, wpc, cur, err, link_try>>

InsertReturnsTrue == \E paper \in IdentityPapers : InsertPaperCall(paper, TRUE)

InsertReturnsFalse == \E paper \in IdentityPapers : InsertPaperCall(paper, FALSE)

\* INSERT INTO paper_authors (pmid, author_id, author_position, affiliation).
InsertLink(s, link) ==
    IF LinkViolation(s, link)
    THEN Raise(s, "UNIQUE constraint failed: paper_authors")
    ELSE Ok([s EXCEPT !.paper_authors = @ \cup {link}])

\* The position and the author id the constraint test inserts with.
TestPosition == 999
TestAuthorId == 999999

\* The test's two INSERTs for a stored link: the same (pmid, author_id) at
\* another position, another author at the same (pmid, author_position).
CollidingLinks(l) ==
    { [pmid |-> l.pmid, author_id |-> l.author_id, author_position |-> TestPosition,
       affiliation |-> Some("Test")],
      [pmid |-> l.pmid, author_id |-> TestAuthorId, author_position |-> l.author_position,
       affiliation |-> Some("Test")] }

\* One direct INSERT of the test: commit if it succeeds, roll back on
\* IntegrityError.
TryDuplicateLink ==
    /\ \E l \in db.paper_authors : \E link \in CollidingLinks(l) :
          LET r == InsertLink(db, link)
          IN /\ db' = (IF r.ok THEN Commit(db, r.db) ELSE Rollback(db, r.db))
             /\ txn' = (IF r.ok THEN Commit(db, r.db) ELSE Rollback(db, r.db))
             /\ link_try' = Some([link |-> link, raised |-> ~r.ok])
    /\ UNCHANGED <<failure_log, search_source, wpc, cur, err, returns, loaded, ncalls>>

IdentityNext ==
    /\ \/ InsertReturnsTrue
       \/ InsertReturnsFalse
       \/ TryDuplicateLink
    /\ UNCHANGED <<upstreamVars, runVars, clientVars, gateVars, transformVars, backoffVars, callVars>>

IdentitySpec == IdentityInit /\ [][IdentityNext]_vars

\* The mentions of the record graphs that calls returning True loaded, each
\* with the author id its link carries.
Resolved ==
    { [key |-> AuthorKey(loaded[p][1].authors[i]), author_id |-> l.author_id] :
        <<p, i, l>> \in { t \in PMIDs \X (1..MaxAuthors) \X db.paper_authors :
                            /\ loaded[t[1]] # None
                            /\ t[2] \in DOMAIN loaded[t[1]][1].authors
                            /\ t[3].pmid = t[1]
                            /\ t[3].author_position = loaded[t[1]][1].authors[t[2]].position } }

\* Every mention a successful call loaded has its link.
NumMentions ==
    LET RECURSIVE Sum(_)
        Sum(S) == IF S = {} THEN 0
                  ELSE LET p == CHOOSE q \in S : TRUE
                       IN (IF loaded[p] = None THEN 0 ELSE Len(loaded[p][1].authors))
                          + Sum(S \ {p})
    IN Sum(PMIDs)

\* C17: no two stored author rows share the composite key (last name, given
\* name, ORCID), absence equal only to absence; every loaded mention has a
\* link, and two loaded mentions carry the same author id exactly when their
\* composite keys are identical.
C17_AuthorIdentity ==
    /\ \A i, j \in DOMAIN db.authors :
          AuthorKey(db.authors[i]) = AuthorKey(db.authors[j]) => i = j
    /\ Cardinality(db.paper_authors) = NumMentions
    /\ \A m, n \in Resolved : (m.key = n.key) <=> (m.author_id = n.author_id)
    /\ \A m \in Resolved :
          m.author_id \in DOMAIN db.authors /\ AuthorKey(db.authors[m.author_id]) = m.key

\* Two papers share one author row, and two rows differ only in the ORCID.
C17_Witness ==
    /\ \E m, n \in Resolved :
          /\ m.key[1] = n.key[1] /\ m.key[2] = n.key[2]
          /\ m.key[3] = None /\ n.key[3] # None
          /\ m.author_id # n.author_id
    /\ \E l1, l2 \in db.paper_authors : l1.pmid # l2.pmid /\ l1.author_id = l2.author_id

\* Two authors of one record graph have the same composite key.
NamesAuthorTwice(authors) ==
    \E i, j \in DOMAIN authors : i # j /\ AuthorKey(authors[i]) = AuthorKey(authors[j])

\* The latest finished insert_paper call.
LastReturn == returns[Len(returns)]

\* C18: a direct INSERT of a second link with the (paper, author) or the
\* (paper, position) of a stored link raises the constraint violation and
\* leaves the store as it was; a record graph that names one author twice is
\* never loaded, and the insert_paper call that returns False leaves the
\* store as it was and logs the failure.
C18_LinkUniqueness ==
    /\ [][link_try' # link_try => (link_try'[1].raised /\ db' = db)]_vars
    /\ [](\A l1, l2 \in db.paper_authors :
            (l1.pmid = l2.pmid
             /\ (l1.author_id = l2.author_id \/ l1.author_position = l2.author_position))
            => l1 = l2)
    /\ [](\A p \in PMIDs : loaded[p] # None => ~NamesAuthorTwice(loaded[p][1].authors))
    /\ [][(Len(returns') > Len(returns) /\ ~LastReturn'.result)
          => (db' = db /\ Len(failure_log') = Len(failure_log) + 1)]_vars

\* A direct duplicate INSERT was refused, and an insert_paper call was refused
\* for the link constraint.
C18_Witness ==
    /\ link_try # None /\ link_try[1].raised
    /\ \E i \in DOMAIN failure_log :
          failure_log[i].error_message = "UNIQUE constraint failed: paper_authors"

\* The Author elements of a document that have a last name.
ValidAuthors(doc) ==
    {i \in DOMAIN doc.authors : doc.authors[i].last_name.elem /\ ~NoText(doc.authors[i].last_name)}

\* C19: for the batch of five documents with distinct identifiers, the third
\* without a title and the fifth with one author who has no last name, parse
\* then load against an empty store ends with 4 committed papers (1, 2, 4 and
\* 5), exactly 1 paper-skip diagnostic, no failed insert_paper call, and for
\* each committed paper one link per valid author: none for document 5.
C19_EndToEndScenario ==
    (docs = ScenarioBatch /\ tpc = "done")
    => /\ {row.pmid : row \in db.papers} = {1, 2, 4, 5}
       /\ Cardinality(db.papers) = 4
       /\ Len(diagnostics) = 1
       /\ diagnostics[1] = [warning |-> "missing title", pmid |-> Some(3)]
       /\ Len(returns) = 4
       /\ \A k \in DOMAIN returns : returns[k].result
       /\ failure_log = <<>>
       /\ \A i \in {1, 2, 4, 5} :
             Cardinality(LinksOf(db, i)) = Cardinality(ValidAuthors(docs[i]))
       /\ LinksOf(db, 5) = {}
       /\ LinksOf(db, 3) = {}

\* The scenario has run to its end.
C19_Witness ==
    /\ docs = ScenarioBatch /\ tpc = "done"
    /\ lidx = 5
    /\ Cardinality(db.paper_authors) = 3

(***************************************************************************)
(* BackoffSpec: _calculate_backoff(attempt) for attempt = 0, 1, 2, ... on  *)
(* a client constructed with any base >= 1 and any cap.                    *)
(***************************************************************************)
MaxBase == 3          \* bases are 1..MaxBase
MaxCap == 10          \* caps are -1..MaxCap, and the default
MaxAttempt == 4       \* the last attempt index a backoff is computed for

BackoffBases == 1..MaxBase
BackoffMaxes == (-1..MaxCap) \cup {60}

BackoffInit ==
    /\ db = EmptyStore
    /\ txn = EmptyStore
    /\ failure_log = <<>>
    /\ search_source \in {"title_abstract"}
    /\ wpc = "idle" /\ cur = NoPaper /\ err = ""
    /\ returns = <<>> /\ loaded = [p \in PMIDs |-> None] /\ ncalls = 0
    /\ RunIdle
    /\ GateIdle
    /\ TransformIdle
    /\ LinkTestIdle
    /\ CallIdle
    /\ rate_limit = 3 /\ max_retries = 3
    /\ backoff_base \in BackoffBases
    /\ backoff_max \in BackoffMaxes
    /\ min_interval = TicksPerInterval
    /\ last_request_time = 0
    /\ now = TicksPerInterval
    /\ cpc = "idle" /\ attempt = 0
    /\ n_attempts = 0 /\ succeeded = FALSE
    /\ last_outcome = NoOutcome /\ last_wait = None /\ raised_kind = "none"
    /\ nrequests = 0 /\ nstarts = 0
    /\ first_start = None /\ prev_start = None /\ last_start = None
    /\ backoffs = <<>>

\* backoff = self._calculate_backoff(attempt), then the next attempt.
ComputeBackoff ==
    /\ attempt <= MaxAttempt
    /\ backoffs' = Append(backoffs, CalculateBackoff(backoff_base, backoff_max, attempt))
    /\ attempt' = attempt + 1
    /\ UNCHANGED <<rate_limit, max_retries, backoff_base, backoff_max, min_interval,
                   last_request_time, now, cpc, n_attempts, succeeded, last_outcome,
                   last_wait, raised_kind, nrequests, nstarts, first_start, prev_start,
                   last_start>>

BackoffNext ==
    /\ ComputeBackoff
    /\ UNCHANGED <<loaderVars, upstreamVars, runVars, gateVars, transformVars, testVars, callVars>>

BackoffSpec == BackoffInit /\ [][BackoffNext]_vars

\* C20: the backoff of attempt a is base^a where that is at most the cap and
\* the cap otherwise; over a = 0, 1, 2, ... the backoffs never decrease and
\* never exceed the cap.
C20_BackoffGrowth ==
    /\ \A a \in 0..(Len(backoffs) - 1) :
          backoffs[a + 1] = IF Pow(backoff_base, a) <= backoff_max
                            THEN Pow(backoff_base, a) ELSE backoff_max
    /\ \A a \in 0..(Len(backoffs) - 1) : backoffs[a + 1] <= backoff_max
    /\ \A a, b \in 0..(Len(backoffs) - 1) : a <= b => backoffs[a + 1] <= backoffs[b + 1]

\* A run of backoffs that doubles and then stays at the cap.
C20_Witness ==
    /\ backoff_base = 2 /\ backoff_max = 10
    /\ backoffs = <<1, 2, 4, 8, 10>>

(***************************************************************************)
(* RunLiveSpec: runs that nothing terminates from outside, in which every  *)
(* call the run makes returns or raises.                                   *)
(***************************************************************************)
RunSteps ==
    /\ \/ StartRun
       \/ SearchFails
       \/ SearchNoHandle
       \/ SearchAllFetched
       \/ SearchOk
       \/ FetchFails
       \/ ParseFails
       \/ PageParsed
       \/ ProcessRecord
       \/ EndBatch
       \/ Summary
       \/ ExitRun
    /\ UNCHANGED <<clientVars, gateVars, transformVars, backoffVars, testVars, callVars>>

RunLiveSpec == RunInit /\ [][RunSteps]_vars /\ WF_vars(RunSteps)

RECURSIVE GraphsProduced(_)
GraphsProduced(i) ==
    IF i = 0 THEN 0
    ELSE GraphsProduced(i - 1)
         + (IF PageOf(requested[i].retstart).kind = "ok"
            THEN Len(PageOf(requested[i].retstart).papers) ELSE 0)

\* The insert_paper calls of a first run that returned False: the failures logged.
ReturnedFalse == Len(failure_log)

\* The totals a first run reports for inserted and failed are the numbers of
\* its insert_paper calls that returned True and False.
InsertedAndFailedAgree ==
    (rpc = "done" /\ summary # None /\ hist = <<>>) =>
        /\ summary[1]["inserted"] = Len(attempts) - ReturnedFalse
        /\ summary[1]["failed"] = ReturnedFalse
        /\ Len(attempts) <= GraphsProduced(Len(requested))

\* C22: at Done the run reports a total inserted equal to the number of its
\* insert_paper calls that returned True, a total failed equal to the number
\* that returned False, and a total skipped equal to the number of record
\* graphs skipped as already processed; the three add up to the number of
\* record graphs of the pages that were fetched and parsed.
C22_Accounting ==
    (rpc = "done" /\ summary # None /\ hist = <<>>) =>
        /\ summary[1]["inserted"] = Len(attempts) - ReturnedFalse
        /\ summary[1]["failed"] = ReturnedFalse
        /\ "skipped" \in DOMAIN summary[1]
        /\ summary[1]["skipped"] = GraphsProduced(Len(requested)) - Len(attempts)
        /\ summary[1]["inserted"] + summary[1]["failed"] + summary[1]["skipped"]
              = GraphsProduced(Len(requested))

(***************************************************************************)
(* CitationsSpec: parse_citations on one reference list, then the load of  *)
(* a record graph that carries what it returned.                           *)
(***************************************************************************)
MaxRefs == 3

\* Reference elements: with a pubmed ArticleId, a doi ArticleId, both,
\* neither, or an empty pubmed ArticleId.  The identifiers are numerals.
References ==
    { PubmedRef("7"),
      [pubmed |-> NoElem, doi |-> Some("10.1/a")],
      [pubmed |-> Elem(Some("15")), doi |-> Some("10.1/b")],
      [pubmed |-> NoElem, doi |-> None],
      [pubmed |-> Elem(None), doi |-> None] }

\* The record graph parse_paper builds around a citation list.
CitingPaper(citations) ==
    [pmid |-> 1, title |-> "T", authors |-> <<>>, citations |-> citations,
     open_access |-> None]

CitationsInit ==
    /\ db = EmptyStore
    /\ txn = EmptyStore
    /\ failure_log = <<>>
    /\ search_source \in {"title_abstract"}
    /\ wpc = "idle" /\ cur = NoPaper /\ err = ""
    /\ returns = <<>> /\ loaded = [p \in PMIDs |-> None] /\ ncalls = 0
    /\ RunIdle
    /\ ClientIdle
    /\ GateIdle
    /\ TransformIdle
    /\ BackoffIdle
    /\ LinkTestIdle
    /\ arg \in SeqsUpTo(References, MaxRefs)
    /\ ret = None
    /\ fpc = "call"

\* citations = parse_citations(article_elem)
CallParseCitations ==
    /\ fpc = "call"
    /\ ret' = Some(ParseCitations(arg))
    /\ fpc' = "returned"
    /\ UNCHANGED <<loaderVars, arg>>

\* insert_paper on the record graph with these citations.
LoadCitations ==
    /\ fpc = "returned"
    /\ ncalls = 0
    /\ ~ret[1].raised
    /\ LET r == InsertPaper(db, failure_log, CitingPaper(ret[1].value), search_source)
       IN /\ db' = r.db
          /\ txn' = r.db
          /\ failure_log' = r.failure_log
          /\ returns' = Append(returns, [pmid |-> 1, result |-> r.result, raised |-> r.raised])
    /\ ncalls' = 1
    /\ UNCHANGED <<search_source, wpc, cur, err, loaded, callVars>>

CitationsNext ==
    /\ \/ CallParseCitations
       \/ LoadCitations
    /\ UNCHANGED <<upstreamVars, runVars, clientVars, gateVars, transformVars, backoffVars,
                   testVars>>

CitationsSpec == CitationsInit /\ [][CitationsNext]_vars

\* A reference carries a cited identifier, a cited DOI.
CarriesPmid(ref) == ref.pubmed.elem /\ ~NoText(ref.pubmed)
CarriesDoi(ref) == ref.doi # None /\ ref.doi # Some("")

\* C23: parse_citations returns, in source order, exactly the references
\* that carry a cited identifier or a cited DOI, each with the identifier and
\* the DOI it carries, and drops those that carry neither; the citation rows
\* stored for the record graph are these, in this order, so no stored row
\* has both the cited identifier and the cited DOI absent.
C23_Citations ==
    LET carrying == SelectSeq(arg, LAMBDA ref : CarriesPmid(ref) \/ CarriesDoi(ref))
    IN /\ fpc = "returned" =>
            /\ ~ret[1].raised
            /\ Len(ret[1].value) = Len(carrying)
            /\ \A i \in 1..Len(carrying) :
                  /\ ret[1].value[i].cited_pmid =
                        (IF CarriesPmid(carrying[i]) THEN IntOf(carrying[i].pubmed.text[1])
                         ELSE None)
                  /\ ret[1].value[i].cited_doi = carrying[i].doi
       /\ \A i \in 1..Len(db.citations) :
             ~(db.citations[i].cited_pmid = None /\ db.citations[i].cited_doi = None)
       /\ ncalls = 1 =>
            /\ returns[1].result
            /\ Len(db.citations) = Len(carrying)
            /\ \A i \in 1..Len(carrying) :
                  /\ db.citations[i].citing_pmid = 1
                  /\ db.citations[i].cited_doi = carrying[i].doi
                  /\ db.citations[i].cited_pmid = ret[1].value[i].cited_pmid

\* A reference with neither identifier stood between two that carry one: two
\* rows are stored, in source order.
C23_Witness ==
    /\ ncalls = 1
    /\ Len(arg) = 3
    /\ CarriesPmid(arg[1]) /\ ~CarriesDoi(arg[1])
    /\ ~CarriesPmid(arg[2]) /\ ~CarriesDoi(arg[2])
    /\ CarriesDoi(arg[3]) /\ ~CarriesPmid(arg[3])
    /\ Len(db.citations) = 2

(***************************************************************************)
(* MonthSpec: _normalize_month on one string.                              *)
(***************************************************************************)
MaxNumeral == 14      \* the numerals given are 0..MaxNumeral

\* The English month names, January first.
EnglishMonths ==
    << <<"j", "a", "n", "u", "a", "r", "y">>,
      <<"f", "e", "b", "r", "u", "a", "r", "y">>,
      <<"m", "a", "r", "c", "h">>,
      <<"a", "p", "r", "i", "l">>,
      <<"m", "a", "y">>,
      <<"j", "u", "n", "e">>,
      <<"j", "u", "l", "y">>,
      <<"a", "u", "g", "u", "s", "t">>,
      <<"s", "e", "p", "t", "e", "m", "b", "e", "r">>,
      <<"o", "c", "t", "o", "b", "e", "r">>,
      <<"n", "o", "v", "e", "m", "b", "e", "r">>,
      <<"d", "e", "c", "e", "m", "b", "e", "r">> >>

UpperChar(c) ==
    IF \E i \in DOMAIN LowerCase : LowerCase[i] = c
    THEN UpperCase[CHOOSE i \in DOMAIN LowerCase : LowerCase[i] = c]
    ELSE c
Upper(str) == [i \in DOMAIN str |-> UpperChar(str[i])]
Capitalize(str) == [i \in DOMAIN str |-> IF i = 1 THEN UpperChar(str[i]) ELSE str[i]]

\* The decimal numeral of n < 100.
Numeral(n) ==
    IF n < 10 THEN <<Digits[n + 1]>>
    ELSE <<Digits[(n \div 10) + 1], Digits[(n % 10) + 1]>>

\* A month name or its three-letter abbreviation, in three casings.
Spellings(name) ==
    LET forms == {name, SubSeq(name, 1, 3)}
    IN forms \cup {Upper(f) : f \in forms} \cup {Capitalize(f) : f \in forms}

\* Strings with the month the input stands for: a numeral m stands for m
\* when 1 <= m <= 12, a spelling of the i-th month name for i, anything else
\* for no month.
MonthInputs ==
    {[text |-> Numeral(n), month |-> IF 1 <= n /\ n <= 12 THEN Some(n) ELSE None] :
        n \in 0..MaxNumeral}
    \cup UNION {{[text |-> str, month |-> Some(i)] : str \in Spellings(EnglishMonths[i])} :
                  i \in DOMAIN EnglishMonths}
    \cup { [text |-> <<"0", "5">>, month |-> Some(5)],
           [text |-> <<" ", "5", " ">>, month |-> Some(5)],
           [text |-> <<"+", "5">>, month |-> Some(5)],
           [text |-> <<"-", "1">>, month |-> None],
           [text |-> <<"1", ".", "0">>, month |-> None],
           [text |-> <<>>, month |-> None],
           [text |-> <<"s", "e", "p", "t">>, month |-> None],
           [text |-> <<"j", "a", "n", ".">>, month |-> None],
           [text |-> <<" ", "j", "a", "n">>, month |-> None],
           [text |-> <<"j", "a", "n", "u">>, month |-> None],
           [text |-> <<"S", "p", "r", "i", "n", "g">>, month |-> None] }

MonthInit ==
    /\ db = EmptyStore
    /\ txn = EmptyStore
    /\ failure_log = <<>>
    /\ search_source \in {"title_abstract"}
    /\ wpc = "idle" /\ cur = NoPaper /\ err = ""
    /\ returns = <<>> /\ loaded = [p \in PMIDs |-> None] /\ ncalls = 0
    /\ RunIdle
    /\ ClientIdle
    /\ GateIdle
    /\ TransformIdle
    /\ BackoffIdle
    /\ LinkTestIdle
    /\ arg \in MonthInputs
    /\ ret = None
    /\ fpc = "call"

\* pub_month = _normalize_month(month_elem.text)
CallNormalizeMonth ==
    /\ fpc = "call"
    /\ ret' = Some(Value(NormalizeMonth(arg.text)))
    /\ fpc' = "returned"
    /\ UNCHANGED arg

MonthNext ==
    /\ CallNormalizeMonth
    /\ UNCHANGED <<loaderVars, upstreamVars, runVars, clientVars, gateVars, transformVars,
                   backoffVars, testVars>>

MonthSpec == MonthInit /\ [][MonthNext]_vars

\* C24: _normalize_month returns m for a numeral m with 1 <= m <= 12, the
\* month's number for an English month name or three-letter abbreviation in
\* any casing, and None for every other string; it never raises.
C24_MonthNormalization ==
    fpc = "returned" => (~ret[1].raised /\ ret[1].value = arg.month)

\* A capitalized abbreviation was normalized to its month.
C24_Witness ==
    /\ fpc = "returned"
    /\ arg.text = <<"S", "e", "p">>
    /\ ret[1].value = Some(9)

\* The identifiers of the record graphs of the pages requested so far, in
\* page order and, within a page, in document order.
RECURSIVE PmidsInOrder(_)
PmidsInOrder(i) ==
    IF i = 0 THEN <<>>
    ELSE PmidsInOrder(i - 1)
         \o (LET page == PageOf(requested[i].retstart)
             IN IF page.kind = "ok" THEN [k \in 1..Len(page.papers) |-> page.papers[k].pmid]
                ELSE <<>>)

\* sub is seq with some of its elements left out.
RECURSIVE IsSubsequence(_, _)
IsSubsequence(sub, seq) ==
    IF sub = <<>> THEN TRUE
    ELSE IF seq = <<>> THEN FALSE
    ELSE IF Head(sub) = Head(seq) THEN IsSubsequence(Tail(sub), Tail(seq))
    ELSE IsSubsequence(sub, Tail(seq))

\* C25: within a run the page offsets are requested in strictly ascending
\* order; a page is requested only when every record graph of the page before
\* it has been through the record loop; insert_paper is called only on the
\* next record graph of the page requested last, so the calls of a run follow
\* page order and, within a page, document order.
C25_ProcessingOrder ==
    /\ [](\A i, j \in 1..Len(requested) :
            i < j => requested[i].retstart < requested[j].retstart)
    /\ [][(requested' # requested /\ rpc' # "search")
          => (/\ rpc = "fetch"
              /\ pidx > Len(papers)
              /\ requested' = Append(requested, [retstart |-> start, retmax |-> batch_size]))]_vars
    /\ [][(attempts' # attempts /\ rpc' # "search")
          => (/\ rpc = "load"
              /\ papers = PageOf(requested[Len(requested)].retstart).papers
              /\ attempts' = Append(attempts, papers[pidx].pmid)
              /\ pidx' = pidx + 1)]_vars
    /\ [](IsSubsequence(attempts, PmidsInOrder(Len(requested))))

\* Two pages were requested and a record graph of each was loaded, the first
\* page's before the second page's.
C25_Witness ==
    /\ rpc = "done"
    /\ Len(requested) = 2
    /\ Len(attempts) = 2
    /\ attempts[1] # attempts[2]
    /\ Len(PageOf(0).papers) = 1 /\ Len(PageOf(batch_size).papers) = 1
    /\ attempts = <<PageOf(0).papers[1].pmid, PageOf(batch_size).papers[1].pmid>>

(***************************************************************************)
(* AuthorsSpec: parse_authors on one AuthorList.                           *)
(***************************************************************************)
MaxAuthorElems == 3   \* Author elements in one AuthorList

\* An Author element with a LastName only, and an ORCID identifier.
LeeElem ==
    [last_name |-> Elem(Some("Lee")), fore_name |-> NoElem,
     initials |-> NoElem, orcid |-> Some("0000-0001")]

\* Author elements: two with a last name, one with no LastName child, one
\* with an empty LastName (<LastName/> and <LastName></LastName>), one whose
\* LastName is blanks.
AuthorElems ==
    { JaneElem, LeeElem, NoLastNameElem,
      [JaneElem EXCEPT !.last_name = Elem(None)],
      [JaneElem EXCEPT !.last_name = Elem(Some(""))],
      [LeeElem EXCEPT !.last_name = Elem(Some("  "))] }

AuthorsInit ==
    /\ db = EmptyStore
    /\ txn = EmptyStore
    /\ failure_log = <<>>
    /\ search_source \in {"title_abstract"}
    /\ wpc = "idle" /\ cur = NoPaper /\ err = ""
    /\ returns = <<>> /\ loaded = [p \in PMIDs |-> None] /\ ncalls = 0
    /\ RunIdle
    /\ ClientIdle
    /\ GateIdle
    /\ TransformIdle
    /\ BackoffIdle
    /\ LinkTestIdle
    /\ arg \in SeqsUpTo(AuthorElems, MaxAuthorElems)
    /\ ret = None
    /\ fpc = "call"

\* authors = parse_authors(article_elem, pmid)
CallParseAuthors ==
    /\ fpc = "call"
    /\ ret' = Some(ParseAuthors(arg))
    /\ fpc' = "returned"
    /\ UNCHANGED arg

AuthorsNext ==
    /\ CallParseAuthors
    /\ UNCHANGED <<loaderVars, upstreamVars, runVars, clientVars, gateVars, transformVars,
                   backoffVars, testVars>>

AuthorsSpec == AuthorsInit /\ [][AuthorsNext]_vars

\* The Author element has a LastName child with text.
HasLastName(author_elem) ==
    /\ author_elem.last_name.elem
    /\ author_elem.last_name.text # None
    /\ author_elem.last_name.text # Some("")

StoreMentions ==
    { Jane, [Jane EXCEPT !.initials = Some("JA")],
      [last_name |-> "Smith", fore_name |-> None, initials |-> Some("S"), orcid |-> None] }

StorePapers ==
    [pmid : PMIDs, title : {"T"},
     authors : {WithPositions(m) : m \in SeqsUpTo(StoreMentions, MaxAuthors)},
     citations : CitationLists, open_access : {None}]

StoreInit ==
    /\ db = EmptyStore
    /\ txn = EmptyStore
    /\ failure_log = <<>>
    /\ search_source \in SearchSources
    /\ wpc = "idle" /\ cur = NoPaper /\ err = ""
    /\ returns = <<>> /\ loaded = [p \in PMIDs |-> None] /\ ncalls = 0
    /\ RunIdle
    /\ ClientIdle
    /\ GateIdle
    /\ TransformIdle
    /\ BackoffIdle
    /\ LinkTestIdle
    /\ CallIdle

\* insert_paper(paper) returns True.
StoreLoads == \E paper \in StorePapers : InsertPaperCall(paper, TRUE)

\* insert_paper(paper) returns False.
StoreRejects == \E paper \in StorePapers : InsertPaperCall(paper, FALSE)

\* The next run constructs its DatabaseWriter for a query of another kind.
NewWriter ==
    /\ search_source' \in SearchSources \ {search_source}
    /\ UNCHANGED <<db, txn, failure_log, wpc, cur, err, returns, loaded, ncalls, link_try>>

StoreNext ==
    /\ \/ StoreLoads
       \/ StoreRejects
       \/ NewWriter
    /\ UNCHANGED <<upstreamVars, runVars, clientVars, gateVars, transformVars, backoffVars,
                   callVars>>

StoreSpec == StoreInit /\ [][StoreNext]_vars

\* seq begins with the rows of prefix, unchanged and in order.
IsPrefix(prefix, seq) ==
    /\ Len(prefix) <= Len(seq)
    /\ \A i \in 1..Len(prefix) : seq[i] = prefix[i]

\* Every row of store s is a row of store t, unchanged.
RowsKept(s, t) ==
    /\ s.papers \subseteq t.papers
    /\ IsPrefix(s.authors, t.authors)
    /\ s.paper_authors \subseteq t.paper_authors
    /\ IsPrefix(s.citations, t.citations)
    /\ s.paper_open_access \subseteq t.paper_open_access
    /\ IsPrefix(s.fetch_log, t.fetch_log)
    /\ s.paper_search_sources \subseteq t.paper_search_sources

\* C32 (store monotonicity): every insert_paper call, whether it returns
\* True or False, leaves every committed paper, author, link, citation,
\* fetch-log and search-source row in the store, unchanged; a stored
\* author keeps its initials when a later mention of its composite key
\* carries others; a paper has at most one search-source row, so at most
\* one per (paper, search type).
C32_StoreMonotonicity ==
    /\ [][RowsKept(db, db')]_vars
    /\ [](\A r1, r2 \in db.paper_search_sources : r1.pmid = r2.pmid => r1 = r2)
    /\ [][\A i \in DOMAIN db.authors :
             /\ i \in DOMAIN db'.authors
             /\ db'.authors[i].initials = db.authors[i].initials]_vars

\* Two papers are committed by writers of different search types; the
\* second names the author of the first with other initials, and the stored
\* initials are those of the first.
C32_Witness ==
    /\ Cardinality(db.papers) = 2
    /\ Len(db.authors) = 1
    /\ db.authors[1].initials = Some("J")
    /\ loaded[2] # None /\ Len(loaded[2][1].authors) = 1
    /\ loaded[2][1].authors[1].initials = Some("JA")
    /\ \A l \in db.paper_authors : l.author_id = 1
    /\ \E r1, r2 \in db.paper_search_sources : r1.search_type # r2.search_type

\* C33 (duplicate-safe load): an insert_paper call with a record graph
\* whose identifier is already committed returns False and leaves every
\* table of the store exactly as it was: no second paper, author, link,
\* citation, fetch-log or search-source row.
C33_DuplicateSafeLoad ==
    [][(returns' # returns /\ PapersKeyTaken(db, returns'[Len(returns')].pmid))
         => (/\ db' = db
             /\ ~returns'[Len(returns')].result
             /\ ~returns'[Len(returns')].raised)]_vars

\* A committed identifier was loaded again, by a writer of another search
\* type, and the store holds one row of it in each table.
C33_Witness ==
    /\ Len(returns) = 2
    /\ returns[1].pmid = returns[2].pmid
    /\ returns[1].result /\ ~returns[2].result
    /\ Len(db.fetch_log) = 1 /\ Cardinality(db.papers) = 1
    /\ Cardinality(db.paper_search_sources) = 1
    /\ \E r \in db.paper_search_sources : r.search_type # search_source

====
